---- MODULE Spec2Model ----
(***************************************************************************)
(* Gradient reconstruction engine of code_saturne                          *)
(* (src/src/alge/cs_gradient.cxx): scheme dispatch, the iterative          *)
(* Green-Gauss driver, the least-squares solve, the clipping stage, the    *)
(* halo synchronisation of the gradient arrays and the cache of COCG       *)
(* matrices.                                                               *)
(*                                                                         *)
(* Reals are exact rationals <<n, d>> with d > 0.  A gradient array is the *)
(* flat C array seen as rows of 3 reals: a field of dimension dim has dim  *)
(* rows per cell (cs_real_3_t, cs_real_33_t, cs_real_63_t), so the halo    *)
(* stride of a gradient, counted in reals, is 3*dim.  Meshes are           *)
(* one-dimensional: only the first real of a row can be non-zero, and a    *)
(* row is represented by that real.                                        *)
(***************************************************************************)
EXTENDS Integers, Sequences, FiniteSets, TLC

(***************************************************************************)
(* Bounds of the model.                                                    *)
(***************************************************************************)
MaxSweepCap == 3
MaxGrad == 1
MaxRes == 1
MaxVar == 1
MaxEpoch == 1
MaxCalls == 3

(***************************************************************************)
(* Program constants.                                                      *)
(***************************************************************************)
CS_GRADIENT_GREEN_ITER == 0
CS_GRADIENT_LSQ == 1
CS_GRADIENT_GREEN_LSQ == 2
CS_GRADIENT_LIMIT_NONE == -1
CS_GRADIENT_LIMIT_CELL == 0
CS_GRADIENT_LIMIT_FACE == 1

NULL == <<>>

(***************************************************************************)
(* cs_real_t arithmetic, exact.                                            *)
(***************************************************************************)
Abs(i) == IF i < 0 THEN -i ELSE i

RECURSIVE GCD(_, _)
GCD(a, b) == IF b = 0 THEN a ELSE GCD(b, a % b)

Rat(n, d) ==
  LET g == GCD(Abs(n), Abs(d))
      s == IF d < 0 THEN -1 ELSE 1
  IN  IF n = 0 THEN <<0, 1>> ELSE <<(s * n) \div g, (s * d) \div g>>

R(i) == <<i, 1>>
RMul(a, b) == Rat(a[1] * b[1], a[2] * b[2])
RAdd(a, b) == Rat(a[1] * b[2] + b[1] * a[2], a[2] * b[2])
RDiv(a, b) == Rat(a[1] * b[2], a[2] * b[1])
RAbs(a) == <<Abs(a[1]), a[2]>>
RLt(a, b) == a[1] * b[2] < b[1] * a[2]
RLe(a, b) == a[1] * b[2] <= b[1] * a[2]
RMax(a, b) == IF RLt(a, b) THEN b ELSE a
RMin(a, b) == IF RLt(b, a) THEN b ELSE a

\* sqrt(): exact on the squares of rationals, rounded down elsewhere
\* (the root of a 32-bit integer, found by bisection below 46341)
ISqrt(x) ==
  LET RECURSIVE Root(_, _)
      Root(lo, hi) ==
        IF lo = hi THEN lo
        ELSE LET mid == (lo + hi + 1) \div 2
             IN  IF mid * mid <= x THEN Root(mid, hi) ELSE Root(lo, mid - 1)
  IN  Root(0, IF x < 46340 THEN x ELSE 46340)
RSqrt(a) == Rat(ISqrt(a[1] * a[2]), a[2])

\* (cs_real_t)DBL_MAX: a value above every other real of the model
DBL_MAX == <<1000000, 1>>

\* the content of an array entry that nothing has written yet
Junk == <<99, 1>>

(***************************************************************************)
(* Meshes.  Cells are numbered from 0; cells n_cells..n_cells_with_ghosts-1*)
(* are ghost cells; halo[i+1] is the owned cell whose values ghost         *)
(* n_cells+i receives (NULL: no halo); cell_cen[c+1] is the x coordinate   *)
(* of the centre of cell c.  Interior face f joins the cells               *)
(* i_face_cells[f]; boundary face f belongs to cell b_face_cells[f], with  *)
(* the x components b_face_normal[f] and diipb[f], the surface             *)
(* b_face_surf[f], the distance b_dist[f] and the centre b_face_cog[f];    *)
(* b_cells lists the cells that have a boundary face; weight[f] is the     *)
(* interpolation weight of interior face f.                                *)
(*   ring: two owned cells on a periodic line, one ghost at each end; the  *)
(*         cells are 3 apart, the periodic images 2 apart.                 *)
(*   single: one cell with boundary faces only, no halo.                   *)
(*   line: three owned cells in a row, a boundary face at each end, no     *)
(*         halo; the cell in the middle is not a boundary cell.            *)
(*   chain: four owned cells in a row, a boundary face at each end, no     *)
(*         halo.                                                           *)
(* All carry the index of the extended neighbourhood (cell_cells_idx);     *)
(* the neighbour lists (cell_cells_lst) are empty except in chain.         *)
(***************************************************************************)
ring ==
  [n_cells |-> 2, n_cells_with_ghosts |-> 4,
   halo |-> <<0, 1>>,
   i_face_cells |-> << <<0, 1>>, <<1, 2>>, <<3, 0>> >>,
   cell_cen |-> <<0, 3, 5, -2>>,
   cell_cells_idx |-> <<0, 0, 0>>, cell_cells_lst |-> <<>>,
   b_cells |-> <<>>, b_face_cells |-> <<>>, b_face_normal |-> <<>>,
   b_face_surf |-> <<>>, b_dist |-> <<>>, diipb |-> <<>>, b_face_cog |-> <<>>,
   weight |-> << <<1, 2>>, <<1, 2>>, <<1, 2>> >>]

single ==
  [n_cells |-> 1, n_cells_with_ghosts |-> 1,
   halo |-> NULL,
   i_face_cells |-> <<>>,
   cell_cen |-> <<0>>,
   cell_cells_idx |-> <<0, 0>>, cell_cells_lst |-> <<>>,
   b_cells |-> <<0>>, b_face_cells |-> <<0, 0>>, b_face_normal |-> <<-1, 1>>,
   b_face_surf |-> <<1, 1>>, b_dist |-> <<1, 1>>, diipb |-> <<0, 0>>,
   b_face_cog |-> <<-1, 1>>,
   weight |-> <<>>]

line ==
  [n_cells |-> 3, n_cells_with_ghosts |-> 3,
   halo |-> NULL,
   i_face_cells |-> << <<0, 1>>, <<1, 2>> >>,
   cell_cen |-> <<0, 2, 4>>,
   cell_cells_idx |-> <<0, 0, 0, 0>>, cell_cells_lst |-> <<>>,
   b_cells |-> <<0, 2>>, b_face_cells |-> <<0, 2>>, b_face_normal |-> <<-1, 1>>,
   b_face_surf |-> <<1, 1>>, b_dist |-> <<1, 1>>, diipb |-> <<0, 1>>,
   b_face_cog |-> <<-1, 5>>,
   weight |-> << <<1, 2>>, <<1, 2>> >>,
   i_f_face_normal |-> <<1, 1>>, dofij |-> <<0, 1>>, cell_f_vol |-> <<2, 2, 2>>,
   i_face_cog |-> <<1, 3>>]

\* four cells in a line; the two end cells have the two cells they share no
\* face with as extended neighbours
chain ==
  [n_cells |-> 4, n_cells_with_ghosts |-> 4,
   halo |-> NULL,
   i_face_cells |-> << <<0, 1>>, <<1, 2>>, <<2, 3>> >>,
   cell_cen |-> <<0, 2, 4, 6>>,
   cell_cells_idx |-> <<0, 2, 2, 2, 4>>, cell_cells_lst |-> <<2, 3, 0, 1>>,
   b_cells |-> <<0, 3>>, b_face_cells |-> <<0, 3>>, b_face_normal |-> <<-1, 1>>,
   b_face_surf |-> <<1, 1>>, b_dist |-> <<1, 1>>, diipb |-> <<0, 0>>,
   b_face_cog |-> <<-1, 7>>,
   weight |-> << <<1, 2>>, <<1, 2>>, <<1, 2>> >>]

\* the four cells in a line of a mesh built without extended connectivity
bare == [chain EXCEPT !.cell_cells_idx = NULL, !.cell_cells_lst = NULL]

\* two cells a hundred apart, a boundary face at each end, no halo
pair ==
  [n_cells |-> 2, n_cells_with_ghosts |-> 2,
   halo |-> NULL,
   i_face_cells |-> << <<0, 1>> >>,
   cell_cen |-> <<0, 100>>,
   cell_cells_idx |-> <<0, 0, 0>>, cell_cells_lst |-> <<>>,
   b_cells |-> <<0, 1>>, b_face_cells |-> <<0, 1>>, b_face_normal |-> <<-1, 1>>,
   b_face_surf |-> <<1, 1>>, b_dist |-> <<50, 50>>, diipb |-> <<0, 0>>,
   b_face_cog |-> <<-50, 150>>,
   weight |-> << <<1, 2>> >>]

Meshes == {ring, single}

Owned(m) == 0..(m.n_cells - 1)
Cells(m) == 0..(m.n_cells_with_ghosts - 1)
Ghosts(m) == m.n_cells..(m.n_cells_with_ghosts - 1)
HaloSrc(m, g) == m.halo[g - m.n_cells + 1]
Cen(m, c) == m.cell_cen[c + 1]

(***************************************************************************)
(* Gradient arrays.                                                        *)
(***************************************************************************)
Rows(m, dim) == 0..(m.n_cells_with_ghosts * dim - 1)
Unwritten(m, dim) == [k \in Rows(m, dim) |-> Junk]
Row(buf, dim, c, i) == buf[c * dim + i]

\* the loops over c_id < n_cells that store a computed gradient: every row
\* of owned cell c becomes vals[c], the other entries are left alone
StoreOwned(m, dim, buf, vals) ==
  [k \in DOMAIN buf |->
     IF k < m.n_cells * dim THEN R(vals[k \div dim]) ELSE buf[k]]

\* an exchange that leaves the ghost elements as they are
halo_sync_skipped(m, buf, stride) == buf

\* cs_halo_sync_var_strided(halo, sync_mode, var, stride): ghost element
\* n_local_elts+i of an array of `stride` reals per element receives the
\* `stride` reals of its source element
cs_halo_sync_var_strided(m, buf, stride) ==
  IF m.halo = NULL THEN buf
  ELSE LET sr == stride \div 3
           n0 == m.n_cells * sr
       IN  [k \in DOMAIN buf |->
              IF k >= n0 /\ k < n0 + Len(m.halo) * sr
              THEN buf[m.halo[((k - n0) \div sr) + 1] * sr + ((k - n0) % sr)]
              ELSE buf[k]]

\* cs_halo_sync_var(halo, sync_mode, var): one real per cell
cs_halo_sync_var(m, arr) ==
  IF m.halo = NULL THEN arr
  ELSE [c \in DOMAIN arr |-> IF c >= m.n_cells THEN arr[HaloSrc(m, c)] ELSE arr[c]]

\* ghost entries hold the values of their source cells
GhostsSynced(m, dim, buf) ==
  \A g \in Ghosts(m) : \A i \in 0..(dim - 1) :
     Row(buf, dim, g, i) = Row(buf, dim, HaloSrc(m, g), i)

OwnedWritten(m, dim, buf) ==
  \A c \in Owned(m) : \A i \in 0..(dim - 1) : Row(buf, dim, c, i) # Junk

\* cs_dot(n, x, x) over the owned entries, summed over ranks
SumSq(m, dim, buf) ==
  LET RECURSIVE S(_)
      S(k) == IF k < 0 THEN <<0, 1>> ELSE RAdd(RMul(buf[k], buf[k]), S(k - 1))
  IN  S(m.n_cells * dim - 1)

(***************************************************************************)
(* The cache of geometric quantities: _gradient_quantities[id], id 0 for   *)
(* the mesh alone and cpl->id + 1 for an internal coupling.  An array is   *)
(* NULL or <<e>>: allocated and filled from the geometry of epoch e.       *)
(***************************************************************************)
gradient_quantities_new ==
  [cocg_it |-> NULL, cocgb_s_lsq |-> NULL, cocg_lsq |-> NULL,
   cocgb_s_lsq_ext |-> NULL, cocg_lsq_ext |-> NULL]

\* _gradient_quantities_get: grows the array up to id, new entries all NULL
gradient_quantities_get(q, id) ==
  IF id + 1 > Len(q)
  THEN q \o [i \in 1..(id + 1 - Len(q)) |-> gradient_quantities_new]
  ELSE q

gq_id(cpl) == IF cpl = NULL THEN 0 ELSE cpl[1] + 1

\* _compute_cell_cocg_it, called when gq->cocg_it is NULL
compute_cell_cocg_it(q, id, e) == [q EXCEPT ![id + 1].cocg_it = <<e>>]

\* _compute_cell_cocg_lsq: both the matrix and its boundary-cell save
compute_cell_cocg_lsq(q, id, extended, e) ==
  IF extended
  THEN [q EXCEPT ![id + 1].cocg_lsq_ext = <<e>>, ![id + 1].cocgb_s_lsq_ext = <<e>>]
  ELSE [q EXCEPT ![id + 1].cocg_lsq = <<e>>, ![id + 1].cocgb_s_lsq = <<e>>]

\* the cache after the lookup of the iterative drivers
get_cell_cocg_it(q, cpl, e) ==
  LET id == gq_id(cpl)
      q1 == gradient_quantities_get(q, id)
  IN  IF q1[id + 1].cocg_it = NULL THEN compute_cell_cocg_it(q1, id, e) ELSE q1

lsq_extended(m, halo_type) ==
  halo_type = "EXTENDED" /\ m.cell_cells_idx # NULL

\* the cache after _get_cell_cocg_lsq
get_cell_cocg_lsq(m, q, halo_type, ce, e) ==
  LET id == gq_id(ce)
      q1 == gradient_quantities_get(q, id)
      extended == lsq_extended(m, halo_type)
      cocg == IF extended THEN q1[id + 1].cocg_lsq_ext ELSE q1[id + 1].cocg_lsq
  IN  IF cocg = NULL THEN compute_cell_cocg_lsq(q1, id, extended, e) ELSE q1

(***************************************************************************)
(* Arguments of a gradient call.                                           *)
(***************************************************************************)
Dims == {1, 3, 6}
GradVals == 0..MaxGrad
EpsVals == {<<0, 1>>, <<1, 2>>, <<1, 1>>}
Verbosities == {-1, 0, 2}
ClipModes == {CS_GRADIENT_LIMIT_NONE, CS_GRADIENT_LIMIT_CELL, CS_GRADIENT_LIMIT_FACE}

ZeroVar(m) == [c \in Owned(m) |-> 0]

\* calls that exercise the iterative driver
IterParams(m) ==
  [dim : Dims, gradient_type : {CS_GRADIENT_GREEN_ITER},
   halo_type : {"STANDARD"}, n_r_sweeps : 0..MaxSweepCap,
   verbosity : Verbosities, epsilon : EpsVals,
   clip_mode : {CS_GRADIENT_LIMIT_NONE}, clip_coeff : {1},
   var : {ZeroVar(m)}, cpl : {NULL}]

\* calls that exercise the least-squares solve and the clipping
LsqParams(m) ==
  [dim : Dims, gradient_type : {CS_GRADIENT_LSQ, CS_GRADIENT_GREEN_LSQ},
   halo_type : {"STANDARD"}, n_r_sweeps : {1},
   verbosity : {0}, epsilon : {<<1, 2>>},
   clip_mode : ClipModes, clip_coeff : {1, 2},
   var : [Owned(m) -> 0..MaxVar], cpl : {NULL}]

\* calls that exercise the cache
CacheParams(m) ==
  [dim : Dims,
   gradient_type : {CS_GRADIENT_GREEN_ITER, CS_GRADIENT_LSQ, CS_GRADIENT_GREEN_LSQ},
   halo_type : {"STANDARD", "EXTENDED"}, n_r_sweeps : {2},
   verbosity : {0}, epsilon : {<<1, 2>>},
   clip_mode : {CS_GRADIENT_LIMIT_NONE}, clip_coeff : {1},
   var : {ZeroVar(m)}, cpl : {NULL, <<0>>}]

NoCall ==
  [dim |-> 1, gradient_type |-> CS_GRADIENT_GREEN_ITER,
   gradient_type_asked |-> CS_GRADIENT_GREEN_ITER, halo_type |-> "STANDARD",
   n_r_sweeps |-> 0, verbosity |-> 0, epsilon |-> <<0, 1>>,
   clip_mode |-> CS_GRADIENT_LIMIT_NONE, clip_coeff |-> 1,
   var |-> <<>>, cpl |-> NULL]

VARIABLES
  mesh,         \* the mesh of the run
  pc,           \* where the current call stands
  p,            \* the arguments of the current call
  grad,         \* the caller's output array
  r_grad,       \* the auxiliary least-squares gradient of the hybrid scheme
  n_sweeps,     \* n_sweeps / isweep of the iterative driver
  sweeps_run,   \* number of sweep bodies executed in this call
  residual_sq,  \* l2_residual, squared
  rnorm_sq,     \* rnorm / l2_norm, squared
  broke,        \* the scalar driver left its loop by break
  warning,      \* the non-convergence warning printed by this call, or NULL
  log,          \* the stages of this call, in order
  clip,         \* what the clipping of this call read and did, or NULL
  gq,           \* _gradient_quantities
  epoch,        \* the recomputations of the geometry since the first one
  cocg_read,    \* the cached matrix this call read: <<id, name, e>>, or NULL
  last_op,      \* the operation of the last step
  unnotified,   \* the geometry was recomputed since the last notification
  systems,      \* cs_glob_gradient_systems, cs_glob_gradient_n_systems long
  n_max_systems,  \* cs_glob_gradient_n_max_systems
  cocg_val,     \* the values of gq[0]'s cocg_lsq and cocgb_s_lsq, or NULL
  var_name_prev,  \* the static var_name_prev of _gradient_scalar
  last_fvm_count, \* the static last_fvm_count of _gradient_scalar
  kc,           \* the public call in progress or just returned, or NULL
  last_call,    \* name, increment flag and epoch of the call before, or NULL
  omp           \* the threads of the function with parallel loops in progress, or NULL

vars ==
  <<mesh, pc, p, grad, r_grad, n_sweeps, sweeps_run, residual_sq, rnorm_sq,
    broke, warning, log, clip, gq, epoch, cocg_read, last_op, unnotified,
    systems, n_max_systems, cocg_val, var_name_prev, last_fvm_count, kc,
    last_call, omp>>

\* every variable but omp
seqVars ==
  <<mesh, pc, p, grad, r_grad, n_sweeps, sweeps_run, residual_sq, rnorm_sq,
    broke, warning, log, clip, gq, epoch, cocg_read, last_op, unnotified,
    systems, n_max_systems, cocg_val, var_name_prev, last_fvm_count, kc,
    last_call>>

\* what persists from one public call to the next, beside the cache
kvars ==
  <<systems, n_max_systems, cocg_val, var_name_prev, last_fvm_count, kc, last_call>>

callVars ==
  <<grad, r_grad, n_sweeps, sweeps_run, residual_sq, rnorm_sq, broke,
    warning, log, clip, cocg_read>>

InitWith(ms) ==
  /\ mesh \in ms
  /\ pc = "idle"
  /\ p = NoCall
  /\ grad = <<>>
  /\ r_grad = <<>>
  /\ n_sweeps = 0
  /\ sweeps_run = 0
  /\ residual_sq = <<0, 1>>
  /\ rnorm_sq = <<0, 1>>
  /\ broke = FALSE
  /\ warning = NULL
  /\ log = <<>>
  /\ clip = NULL
  /\ gq = <<>>
  /\ epoch = 0
  /\ cocg_read = NULL
  /\ last_op = "none"
  /\ unnotified = FALSE
  /\ systems = <<>>
  /\ n_max_systems = 0
  /\ cocg_val = NULL
  /\ var_name_prev = ""
  /\ last_fvm_count = 0
  /\ kc = NULL
  /\ last_call = NULL
  /\ omp = NULL

Init == InitWith(Meshes)

\* a switch without the reconstruction of the hybrid scheme
UsesRGradNever(prm) == FALSE

\* the work array of the least-squares solve and of the clipping: grad
\* itself, or r_grad for the hybrid scheme
UsesRGrad(prm) == prm.gradient_type = CS_GRADIENT_GREEN_LSQ

\* cs_gradient_scalar / cs_gradient_vector / cs_gradient_tensor up to the
\* switch of _gradient_scalar / _gradient_vector / _gradient_tensor.  The
\* tensor entry points turn the hybrid scheme into the iterative one; p
\* keeps the scheme the caller asked for as gradient_type_asked.
gradient_type_used(dim, gradient_type) ==
  IF dim = 6 /\ gradient_type = CS_GRADIENT_GREEN_LSQ
  THEN CS_GRADIENT_GREEN_ITER
  ELSE gradient_type

cs_gradient_call(prm) ==
  /\ pc = "idle"
  /\ p' = [prm EXCEPT !.gradient_type = gradient_type_used(prm.dim, prm.gradient_type)]
          @@ [gradient_type_asked |-> prm.gradient_type]
  /\ grad' = Unwritten(mesh, prm.dim)
  /\ r_grad' = IF UsesRGrad(p') THEN Unwritten(mesh, prm.dim) ELSE <<>>
  /\ n_sweeps' = 0
  /\ sweeps_run' = 0
  /\ residual_sq' = <<0, 1>>
  /\ rnorm_sq' = <<0, 1>>
  /\ broke' = FALSE
  /\ warning' = NULL
  /\ log' = <<>>
  /\ clip' = NULL
  /\ cocg_read' = NULL
  /\ pc' = "switch"
  /\ last_op' = "cs_gradient"
  /\ UNCHANGED kvars
  /\ UNCHANGED <<omp, mesh, gq, epoch, unnotified>>

(***************************************************************************)
(* Green-Gauss initialisation and the iterative drivers.                   *)
(***************************************************************************)
Event(op, buf) == <<op, buf>>
SyncEvent(m, buf) == IF m.halo = NULL THEN <<>> ELSE <<Event("sync", buf)>>

\* _initialize_scalar_gradient / _initialize_vector_gradient /
\* _initialize_tensor_gradient: owned cells computed, then the halo sync
initialize_gradient ==
  /\ pc = "switch"
  /\ p.gradient_type = CS_GRADIENT_GREEN_ITER
  /\ \E vals \in [Owned(mesh) -> GradVals] :
       grad' = cs_halo_sync_var_strided(mesh,
                 StoreOwned(mesh, p.dim, grad, vals), 3 * p.dim)
  /\ log' = log \o <<Event("init", "grad")>> \o SyncEvent(mesh, "grad")
  /\ pc' = "init_done"
  /\ last_op' = "initialize_gradient"
  /\ UNCHANGED kvars
  /\ UNCHANGED <<omp, mesh, p, r_grad, n_sweeps, sweeps_run, residual_sq, rnorm_sq,
                 broke, warning, clip, gq, epoch, cocg_read, unnotified>>

\* l2_residual < epsrgp * rnorm, on the squares (both sides are >= 0)
residual_below(res_sq, eps, norm_sq) ==
  RLt(res_sq, RMul(RMul(eps, eps), norm_sq))

\* l2_residual > epsrgp * l2_norm
residual_above(res_sq, eps, norm_sq) ==
  RLt(RMul(RMul(eps, eps), norm_sq), res_sq)

\* a sign test in place of the test against cs_math_epzero
norm_is_negative(norm_sq) == RLt(norm_sq, <<0, 1>>)

\* rnorm <= cs_math_epzero: the norms of the model are 0 or at least 1
norm_is_zero(norm_sq) == norm_sq = <<0, 1>>

\* the scalar driver is always entered; the vector and tensor drivers only
\* when n_r_sweeps > 1
driver_called(dim, n_r_sweeps) == dim = 1 \/ n_r_sweeps > 1

\* the ids of the cache entry an iterative driver uses (tensor: always 0)
iterative_cpl(prm) == IF prm.dim = 6 THEN NULL ELSE prm.cpl

\* _iterative_scalar_gradient / _iterative_vector_gradient /
\* _iterative_tensor_gradient from their entry to the test of the loop
iterative_gradient_begin ==
  /\ pc = "init_done"
  /\ last_op' = "iterative_gradient_begin"
  /\ UNCHANGED kvars
  /\ IF ~driver_called(p.dim, p.n_r_sweeps) \/ (p.dim = 1 /\ p.n_r_sweeps < 1)
     THEN /\ pc' = "switch_done"
          /\ UNCHANGED <<gq, rnorm_sq, residual_sq, n_sweeps>>
     ELSE /\ gq' = get_cell_cocg_it(gq, iterative_cpl(p), epoch)
          /\ rnorm_sq' = SumSq(mesh, p.dim, grad)
          /\ residual_sq' = IF p.dim = 1 THEN <<0, 1>> ELSE rnorm_sq'
          /\ IF norm_is_zero(rnorm_sq')
             THEN pc' = "switch_done" /\ n_sweeps' = 0
             ELSE pc' = "sweep_loop" /\ n_sweeps' = 1
  /\ UNCHANGED <<omp, mesh, p, grad, r_grad, sweeps_run, broke, warning, log, clip,
                 epoch, cocg_read, unnotified>>

\* the condition of the for loop (the scalar loop also ends by break)
loop_continues(dim, n, n_r_sweeps, brk, res_sq, eps, norm_sq) ==
  IF dim = 1
  THEN n < n_r_sweeps /\ ~brk
  ELSE n < n_r_sweeps /\ residual_above(res_sq, eps, norm_sq)

LoopContinues ==
  loop_continues(p.dim, n_sweeps, p.n_r_sweeps, broke, residual_sq,
                 p.epsilon, rnorm_sq)

CocgItRead ==
  LET id == gq_id(iterative_cpl(p))
  IN  <<id, "cocg_it", gq[id + 1].cocg_it>>

\* one pass of the loop body: right-hand side, increment of the owned
\* cells, halo sync, residual
iterative_gradient_sweep ==
  /\ pc = "sweep_loop"
  /\ LoopContinues
  /\ \E r \in 0..MaxRes : \E vals \in [Owned(mesh) -> GradVals] :
       LET g1 == StoreOwned(mesh, p.dim, grad, vals)
           res == R(r * r)
           conv == residual_below(res, p.epsilon, rnorm_sq)
       IN  /\ r = 0 => g1 = grad
           /\ grad' = cs_halo_sync_var_strided(mesh, g1, 3 * p.dim)
           /\ residual_sq' = res
           /\ broke' = (p.dim = 1 /\ conv)
           /\ n_sweeps' = IF p.dim = 1 /\ conv THEN n_sweeps ELSE n_sweeps + 1
  /\ sweeps_run' = sweeps_run + 1
  /\ cocg_read' = CocgItRead
  /\ log' = log \o <<Event("sweep", "grad")>> \o SyncEvent(mesh, "grad")
  /\ last_op' = "iterative_gradient_sweep"
  /\ UNCHANGED kvars
  /\ UNCHANGED <<omp, mesh, pc, p, r_grad, rnorm_sq, warning, clip, gq, epoch,
                 unnotified>>

\* the warning printed only above verbosity 0
warning_printed_above_zero(dim, n, n_r_sweeps, verbosity, res_sq, eps, norm_sq) ==
  /\ ~residual_below(res_sq, eps, norm_sq)
  /\ (dim = 1 \/ n >= n_r_sweeps)
  /\ verbosity > 0

\* the test that prints the non-convergence warning after the loop
warning_printed(dim, n, n_r_sweeps, verbosity, res_sq, eps, norm_sq) ==
  IF dim = 1
  THEN ~residual_below(res_sq, eps, norm_sq) /\ verbosity > -1
  ELSE /\ ~residual_below(res_sq, eps, norm_sq)
       /\ n >= n_r_sweeps
       /\ verbosity >= 0

\* the end of the driver once the loop is left
iterative_gradient_end ==
  /\ pc = "sweep_loop"
  /\ ~LoopContinues
  /\ warning' = IF warning_printed(p.dim, n_sweeps, p.n_r_sweeps, p.verbosity,
                                   residual_sq, p.epsilon, rnorm_sq)
                THEN <<residual_sq, rnorm_sq>>
                ELSE NULL
  /\ pc' = "switch_done"
  /\ last_op' = "iterative_gradient_end"
  /\ UNCHANGED kvars
  /\ UNCHANGED <<omp, mesh, p, grad, r_grad, n_sweeps, sweeps_run, residual_sq,
                 rnorm_sq, broke, log, clip, gq, epoch, cocg_read, unnotified>>

(***************************************************************************)
(* Least-squares solve.                                                    *)
(***************************************************************************)
WorkName(prm) == IF UsesRGrad(prm) THEN "r_grad" ELSE "grad"
Work == IF UsesRGrad(p) THEN r_grad ELSE grad

SetWork(buf) ==
  IF UsesRGrad(p)
  THEN r_grad' = buf /\ grad' = grad
  ELSE grad' = buf /\ r_grad' = r_grad

\* the coupling handed to _get_cell_cocg_lsq: only the vector solve passes it
lsq_cpl(prm) == IF prm.dim = 3 THEN prm.cpl ELSE NULL

\* the solve without its final halo sync
lsq_sync_skipped(m, dim, buf) == buf

\* the halo sync that ends _lsq_scalar_gradient / _lsq_vector_gradient /
\* _lsq_tensor_gradient
lsq_sync(m, dim, buf) == cs_halo_sync_var_strided(m, buf, 3 * dim)

CocgLsqRead(q) ==
  LET id == gq_id(lsq_cpl(p))
  IN  IF lsq_extended(mesh, p.halo_type)
      THEN <<id, "cocg_lsq_ext", q[id + 1].cocg_lsq_ext>>
      ELSE <<id, "cocg_lsq", q[id + 1].cocg_lsq>>

\* the test on the loop "Contribution from extended neighborhood" of the
\* right-hand side: the scalar solve also tests cell_cells_idx
lsq_rhs_extended(m, dim, halo_type) ==
  IF dim = 1 THEN halo_type = "EXTENDED" /\ m.cell_cells_idx # NULL
  ELSE halo_type = "EXTENDED"

\* the loop reads cell_cells_idx[c_id1] through a null pointer
lsq_rhs_reads_null(m, dim, halo_type) ==
  lsq_rhs_extended(m, dim, halo_type) /\ m.cell_cells_idx = NULL

\* _lsq_scalar_gradient / _lsq_vector_gradient / _lsq_tensor_gradient.  A
\* read through the null pointer either ends the process or yields any
\* value, and the solve goes on to some gradient.
lsq_gradient ==
  /\ pc = "switch"
  /\ p.gradient_type \in {CS_GRADIENT_LSQ, CS_GRADIENT_GREEN_LSQ}
  /\ gq' = get_cell_cocg_lsq(mesh, gq, p.halo_type, lsq_cpl(p), epoch)
  /\ cocg_read' = CocgLsqRead(gq')
  /\ \E vals \in [Owned(mesh) -> GradVals],
        killed \in IF lsq_rhs_reads_null(mesh, p.dim, p.halo_type)
                   THEN BOOLEAN ELSE {FALSE} :
       /\ SetWork(IF killed THEN Work
                  ELSE lsq_sync(mesh, p.dim, StoreOwned(mesh, p.dim, Work, vals)))
       /\ log' = log
                  \o (IF lsq_rhs_reads_null(mesh, p.dim, p.halo_type)
                      THEN <<Event("null_read", "cell_cells_idx")>> ELSE <<>>)
                  \o (IF killed THEN <<>>
                      ELSE <<Event("solve", WorkName(p))>>
                           \o SyncEvent(mesh, WorkName(p)))
       /\ pc' = IF killed THEN "killed" ELSE "solved"
  /\ last_op' = "lsq_gradient"
  /\ UNCHANGED kvars
  /\ UNCHANGED <<omp, mesh, p, n_sweeps, sweeps_run, residual_sq, rnorm_sq, broke,
                 warning, clip, epoch, unnotified>>

(***************************************************************************)
(* Clipping: _scalar_gradient_clipping, _vector_gradient_clipping,         *)
(* _tensor_gradient_clipping.                                              *)
(***************************************************************************)
\* the early return on the clip mode
clip_disabled(dim, clip_mode) ==
  IF dim = 3 THEN clip_mode < 0 ELSE clip_mode <= CS_GRADIENT_LIMIT_NONE

clip_algorithm_two_way(dim, clip_mode) ==
  IF clip_mode = CS_GRADIENT_LIMIT_FACE THEN "face" ELSE "cell"

\* the algorithm the clip mode selects
clip_algorithm(dim, clip_mode) ==
  IF clip_disabled(dim, clip_mode) THEN "none"
  ELSE IF clip_mode = CS_GRADIENT_LIMIT_CELL THEN "cell"
  ELSE IF clip_mode = CS_GRADIENT_LIMIT_FACE THEN "face"
  ELSE "nothing"

\* _tensor_norm_2 counts the off-diagonal rows twice
NormWeight(dim, i) == IF dim = 6 /\ i >= 3 THEN 2 ELSE 1

\* |rows . dist| for a scalar, the squared norm of rows . dist otherwise
Variation(dim, rows, dist) ==
  IF dim = 1 THEN RAbs(RMul(rows[0], R(dist)))
  ELSE LET RECURSIVE S(_)
           S(i) == IF i < 0 THEN <<0, 1>>
                   ELSE LET t == RMul(rows[i], R(dist))
                        IN  RAdd(RMul(R(NormWeight(dim, i)), RMul(t, t)), S(i - 1))
       IN  S(dim - 1)

CellRows(buf, dim, c) == [i \in 0..(dim - 1) |-> Row(buf, dim, c, i)]

FaceRows(buf, dim, ii, jj) ==
  [i \in 0..(dim - 1) |->
     RMul(<<1, 2>>, RAdd(Row(buf, dim, ii, i), Row(buf, dim, jj, i)))]

\* the field at a cell: the caller's array is synchronised at entry
VarAt(m, var, c) == IF c >= m.n_cells THEN var[HaloSrc(m, c)] ELSE var[c]

FacesOf(m, c) ==
  {f \in 1..Len(m.i_face_cells) : c = m.i_face_cells[f][1] \/ c = m.i_face_cells[f][2]}

MaxOf(S) == CHOOSE x \in S : \A y \in S : RLe(y, x)
MinOf(S) == CHOOSE x \in S : \A y \in S : RLe(x, y)

\* the extended neighbours of an owned cell, in the order of cell_cells_lst:
\* the loops "Complement for extended neighborhood" run only when
\* cell_cells_idx != NULL && halo_type == CS_HALO_EXTENDED
clip_extended(m, halo_type) == m.cell_cells_idx # NULL /\ halo_type = "EXTENDED"

ExtNbrs(m, halo_type, c) ==
  IF clip_extended(m, halo_type) /\ c < m.n_cells
  THEN [i \in 1..(m.cell_cells_idx[c + 2] - m.cell_cells_idx[c + 1]) |->
          m.cell_cells_lst[m.cell_cells_idx[c + 1] + i]]
  ELSE <<>>

ExtSet(m, halo_type, c) ==
  {ExtNbrs(m, halo_type, c)[i] : i \in DOMAIN ExtNbrs(m, halo_type, c)}

\* denum after the face loop and its complement, over all n_cells_ext cells
clip_denum(m, dim, alg, halo_type, buf) ==
  [c \in Cells(m) |->
     MaxOf({<<0, 1>>} \cup
       {LET ii == m.i_face_cells[f][1]
            jj == m.i_face_cells[f][2]
            dist == Cen(m, ii) - Cen(m, jj)
        IN  IF alg = "face"
            THEN Variation(dim, FaceRows(buf, dim, ii, jj), dist)
            ELSE Variation(dim, CellRows(buf, dim, c), dist)
        : f \in FacesOf(m, c)} \cup
       {LET dist == Cen(m, c) - Cen(m, jj)
        IN  IF alg = "face"
            THEN Variation(dim, FaceRows(buf, dim, c, jj), dist)
            ELSE Variation(dim, CellRows(buf, dim, c), dist)
        : jj \in ExtSet(m, halo_type, c)})]

\* denom after the face loop and its complement
clip_denom(m, dim, halo_type, var) ==
  [c \in Cells(m) |->
     MaxOf({<<0, 1>>} \cup
       {LET d == VarAt(m, var, m.i_face_cells[f][1])
                 - VarAt(m, var, m.i_face_cells[f][2])
        IN  Variation(dim, [i \in 0..(dim - 1) |-> R(d)], 1)
        : f \in FacesOf(m, c)} \cup
       {LET d == VarAt(m, var, c) - VarAt(m, var, jj)
        IN  Variation(dim, [i \in 0..(dim - 1) |-> R(d)], 1)
        : jj \in ExtSet(m, halo_type, c)})]

\* denum > climgp * denom (scalar), denum > climgp^2 * denom (others)
clip_limit(dim, climgp) == IF dim = 1 THEN R(climgp) ELSE R(climgp * climgp)
clip_exceeds(dim, climgp, dnum, dnom) ==
  RLt(RMul(clip_limit(dim, climgp), dnom), dnum)

\* factor1: climgp * denom / denum, or its square root on squared norms
clip_factor1(dim, climgp, dnum, dnom) ==
  IF dim = 1
  THEN RDiv(RMul(R(climgp), dnom), dnum)
  ELSE RSqrt(RDiv(RMul(R(climgp * climgp), dnom), dnum))

face_factor(dim, climgp, dnum, dnom) ==
  IF clip_exceeds(dim, climgp, dnum, dnom)
  THEN clip_factor1(dim, climgp, dnum, dnom)
  ELSE <<1, 1>>

\* l_min_factor of interior face f: CS_MIN(factor1, factor2)
i_face_min_factor(m, dim, climgp, denum, denom, f) ==
  RMin(face_factor(dim, climgp, denum[m.i_face_cells[f][1]],
                   denom[m.i_face_cells[f][1]]),
       face_factor(dim, climgp, denum[m.i_face_cells[f][2]],
                   denom[m.i_face_cells[f][2]]))

\* the complement for the extended neighbourhood reduced to the running
\* minimum over all the neighbours
ext_min_factor_running(dim, climgp, denum, denom, nbrs) ==
  MinOf({<<1, 1>>} \cup
        {face_factor(dim, climgp, denum[nbrs[i]], denom[nbrs[i]]) : i \in DOMAIN nbrs})

\* what the loop on the extended neighbours of a cell leaves in
\* l_min_factor / t_min_factor: scalar and vector keep the running minimum
\* (l_min_factor = CS_MIN(l_min_factor, factor2)); the tensor code assigns
\* t_min_factor = CS_MIN(min_factor, factor2) with min_factor still 1
ext_min_factor(dim, climgp, denum, denom, nbrs) ==
  IF dim = 6
  THEN IF nbrs = <<>> THEN <<1, 1>>
       ELSE RMin(<<1, 1>>, face_factor(dim, climgp, denum[nbrs[Len(nbrs)]],
                                       denom[nbrs[Len(nbrs)]]))
  ELSE ext_min_factor_running(dim, climgp, denum, denom, nbrs)

\* the factor each owned cell is multiplied by
clip_factors(m, dim, alg, halo_type, climgp, denum, denom) ==
  [c \in Owned(m) |->
     IF alg = "cell"
     THEN face_factor(dim, climgp, denum[c], denom[c])
     ELSE IF alg = "face"
     THEN LET l == MinOf({DBL_MAX} \cup
                     {i_face_min_factor(m, dim, climgp, denum, denom, f)
                      : f \in FacesOf(m, c)})
          IN  IF clip_extended(m, halo_type)
              THEN RMin(l, ext_min_factor(dim, climgp, denum, denom,
                                          ExtNbrs(m, halo_type, c)))
              ELSE l
     ELSE <<1, 1>>]

\* the loops "for i < 3, for j < 3" that scale an owned cell
clip_scale(m, dim, buf, factor) ==
  [k \in DOMAIN buf |->
     IF k < m.n_cells * dim /\ (k % dim) < 3
     THEN RMul(buf[k], factor[k \div dim])
     ELSE buf[k]]

\* the stride of the halo sync that ends the clipping
clip_sync_stride(dim) == IF dim = 1 THEN 3 ELSE 9

\* the clipping without its final halo sync
clipping_stages_unsynced(m, dim, clip_mode) ==
  LET alg == clip_algorithm(dim, clip_mode)
      h == m.halo # NULL
      on(c, st) == IF c THEN <<st>> ELSE <<>>
  IN  IF alg = "none" THEN <<>>
      ELSE on(dim = 1 /\ alg = "face" /\ h, "sync_in")
           \o <<"den">>
           \o on(alg = "face" /\ h, "sync_den")
           \o <<"apply">>

\* the stages a clipping call runs through, in order:
\*   "sync_in"  halo sync of the gradient before use (scalar, face mode)
\*   "den"      the face loops that fill denum and denom
\*   "sync_den" halo sync of denom and denum (face mode)
\*   "apply"    the factors and the scaling of the owned cells
\*   "sync_out" halo sync of the clipped gradient
clipping_stages(m, dim, clip_mode) ==
  LET alg == clip_algorithm(dim, clip_mode)
      h == m.halo # NULL
      on(c, st) == IF c THEN <<st>> ELSE <<>>
  IN  IF alg = "none" THEN <<>>
      ELSE on(dim = 1 /\ alg = "face" /\ h, "sync_in")
           \o <<"den">>
           \o on(alg = "face" /\ h, "sync_den")
           \o <<"apply">>
           \o on(h, "sync_out")

DenSynced(m, denum, denom) ==
  \A g \in Ghosts(m) :
     denum[g] = denum[HaloSrc(m, g)] /\ denom[g] = denom[HaloSrc(m, g)]

\* the effect of one stage on the working state of the clipping
clip_stage(m, prm, st, s) ==
  LET alg == clip_algorithm(prm.dim, prm.clip_mode)
      name == WorkName(prm)
  IN  CASE s = "sync_in" ->
             [st EXCEPT !.buf = cs_halo_sync_var_strided(m, st.buf, 3),
                        !.log = st.log \o <<Event("sync", name)>>]
        [] s = "den" ->
             [st EXCEPT !.denum = clip_denum(m, prm.dim, alg, prm.halo_type, st.buf),
                        !.denom = clip_denom(m, prm.dim, prm.halo_type, prm.var),
                        !.in_synced = GhostsSynced(m, prm.dim, st.buf)]
        [] s = "sync_den" ->
             [st EXCEPT !.denum = cs_halo_sync_var(m, st.denum),
                        !.denom = cs_halo_sync_var(m, st.denom)]
        [] s = "apply" ->
             LET f == clip_factors(m, prm.dim, alg, prm.halo_type, prm.clip_coeff,
                                   st.denum, st.denom)
                 b == clip_scale(m, prm.dim, st.buf, f)
             IN  [st EXCEPT !.factor = f,
                            !.den_synced = (alg # "face"
                                            \/ DenSynced(m, st.denum, st.denom)),
                            !.buf = b,
                            !.after = b,
                            !.log = st.log \o <<Event("clip", name)>>]
        [] s = "sync_out" ->
             [st EXCEPT !.buf = cs_halo_sync_var_strided(m, st.buf,
                                  clip_sync_stride(prm.dim)),
                        !.log = st.log \o <<Event("sync", name)>>]

RECURSIVE clip_run(_, _, _, _)
clip_run(m, prm, st, stages) ==
  IF stages = <<>> THEN st
  ELSE clip_run(m, prm, clip_stage(m, prm, st, Head(stages)), Tail(stages))

ClipStart(buf) ==
  [buf |-> buf, before |-> buf, after |-> buf, denum |-> <<>>, denom |-> <<>>,
   factor |-> <<>>, in_synced |-> TRUE, den_synced |-> TRUE, log |-> <<>>]

\* the call of the clipping function after the least-squares solve
gradient_clipping ==
  /\ pc = "solved"
  /\ LET stages == clipping_stages(mesh, p.dim, p.clip_mode)
         st == clip_run(mesh, p, ClipStart(Work), stages)
     IN  /\ SetWork(st.buf)
         /\ log' = log \o st.log
         /\ clip' = IF stages = <<>> THEN NULL
                    ELSE [before |-> st.before, after |-> st.after,
                          factor |-> st.factor, in_synced |-> st.in_synced,
                          den_synced |-> st.den_synced,
                          denum |-> st.denum, denom |-> st.denom]
  /\ pc' = IF UsesRGrad(p) THEN "clipped" ELSE "switch_done"
  /\ last_op' = "gradient_clipping"
  /\ UNCHANGED kvars
  /\ UNCHANGED <<omp, mesh, p, n_sweeps, sweeps_run, residual_sq, rnorm_sq, broke,
                 warning, gq, epoch, cocg_read, unnotified>>

\* _reconstruct_scalar_gradient / _reconstruct_vector_gradient: one
\* Green-Gauss pass built on r_grad, then the halo sync of grad
reconstruct_gradient ==
  /\ pc = "clipped"
  /\ \E vals \in [Owned(mesh) -> GradVals] :
       grad' = cs_halo_sync_var_strided(mesh,
                 StoreOwned(mesh, p.dim, grad, vals), 3 * p.dim)
  /\ log' = log \o <<Event("reconstruct", "grad")>> \o SyncEvent(mesh, "grad")
  /\ pc' = "switch_done"
  /\ last_op' = "reconstruct_gradient"
  /\ UNCHANGED kvars
  /\ UNCHANGED <<omp, mesh, p, r_grad, n_sweeps, sweeps_run, residual_sq, rnorm_sq,
                 broke, warning, clip, gq, epoch, cocg_read, unnotified>>

\* the end of _gradient_scalar / _gradient_vector / _gradient_tensor and of
\* the public function: r_grad is freed, grad is the caller's
gradient_return ==
  /\ pc = "switch_done"
  /\ pc' = "returned"
  /\ r_grad' = <<>>
  /\ last_op' = "gradient_return"
  /\ UNCHANGED kvars
  /\ UNCHANGED <<omp, mesh, p, grad, n_sweeps, sweeps_run, residual_sq, rnorm_sq,
                 broke, warning, log, clip, gq, epoch, cocg_read, unnotified>>

\* the caller is done with the gradient it asked for; its array and what
\* was recorded about the call are dropped
caller_done ==
  /\ pc = "returned"
  /\ pc' = "idle"
  /\ p' = NoCall
  /\ grad' = <<>>
  /\ n_sweeps' = 0
  /\ sweeps_run' = 0
  /\ residual_sq' = <<0, 1>>
  /\ rnorm_sq' = <<0, 1>>
  /\ broke' = FALSE
  /\ warning' = NULL
  /\ log' = <<>>
  /\ clip' = NULL
  /\ cocg_read' = NULL
  /\ last_op' = "caller_done"
  /\ kc' = NULL
  /\ UNCHANGED <<systems, n_max_systems, cocg_val, var_name_prev, last_fvm_count, last_call>>
  /\ UNCHANGED <<omp, mesh, r_grad, gq, epoch, unnotified>>

(***************************************************************************)
(* The values of the least-squares matrices.  On the meshes of the model a *)
(* matrix is its xx entry, and its inverse the inverse of that entry.      *)
(***************************************************************************)
\* the sum of the reals f[x], x in S
RECURSIVE RSumSet(_, _)
RSumSet(f, S) ==
  IF S = {} THEN <<0, 1>>
  ELSE LET x == CHOOSE y \in S : TRUE
       IN  RAdd(f[x], RSumSet(f, S \ {x}))

BFacesOf(m, c) == {f \in 1..Len(m.b_face_cells) : m.b_face_cells[f] = c}
BCells(m) == {m.b_cells[i] : i \in 1..Len(m.b_cells)}
BCellIdx(m, c) == CHOOSE i \in 1..Len(m.b_cells) : m.b_cells[i] = c

\* _math_6_inv_cramer_sym_in_place
math_6_inv_cramer_sym_in_place(x) == RDiv(<<1, 1>>, x)

\* dc*dc*ddc of an interior face
cocg_i_face(m, f) ==
  LET dc == Cen(m, m.i_face_cells[f][2]) - Cen(m, m.i_face_cells[f][1])
  IN  RDiv(R(dc * dc), R(dc * dc))

\* normal*normal of a boundary face, the normal normalised
cocg_b_face_sym(m, f) ==
  LET n == m.b_face_normal[f]
  IN  RDiv(R(n * n), R(Abs(n) * Abs(n)))

\* the sums over the interior faces, all n_cells_ext cells
cocg_interior(m) ==
  [c \in Cells(m) |->
     RSumSet([f \in FacesOf(m, c) |-> cocg_i_face(m, f)], FacesOf(m, c))]

\* _compute_cell_cocg_lsq: cocg zeroed, interior faces, the save of the
\* boundary cells into cocgb, boundary faces under the symmetry assumption,
\* inversion of the owned cells
compute_cell_cocg_lsq_val(m) ==
  LET part == cocg_interior(m)
      full == [c \in Cells(m) |->
                 RAdd(part[c],
                      RSumSet([f \in BFacesOf(m, c) |-> cocg_b_face_sym(m, f)],
                              BFacesOf(m, c)))]
  IN  [cocg |-> [c \in Cells(m) |->
                   IF c < m.n_cells THEN math_6_inv_cramer_sym_in_place(full[c])
                   ELSE full[c]],
       cocgb |-> [i \in 1..Len(m.b_cells) |-> part[m.b_cells[i]]]]

\* dddij of a boundary face: udbfs*normal + umcbdd*diipb
recompute_dddij(m, coefbp, f) ==
  LET umcbdd == RDiv(RAdd(<<1, 1>>, RMul(R(-1), coefbp[f])), R(m.b_dist[f]))
      udbfs == RDiv(<<1, 1>>, R(m.b_face_surf[f]))
  IN  RAdd(RMul(udbfs, R(m.b_face_normal[f])), RMul(umcbdd, R(m.diipb[f])))

\* a recomputation that sums the boundary faces onto the saved sums and
\* leaves the result as it is
recompute_lsq_scalar_cocg_no_inv(m, coefbp, cocgb, cocg) ==
  [c \in DOMAIN cocg |->
     IF c \in BCells(m)
     THEN RAdd(cocgb[BCellIdx(m, c)],
               RSumSet([f \in BFacesOf(m, c) |->
                          RMul(recompute_dddij(m, coefbp, f),
                               recompute_dddij(m, coefbp, f))],
                       BFacesOf(m, c)))
     ELSE cocg[c]]

\* _recompute_lsq_scalar_cocg: the boundary cells restart from cocgb, the
\* boundary faces are summed with the coefficients of the call, the boundary
\* cells are inverted
recompute_lsq_scalar_cocg(m, coefbp, cocgb, cocg) ==
  [c \in DOMAIN cocg |->
     IF c \in BCells(m)
     THEN math_6_inv_cramer_sym_in_place(
            RAdd(cocgb[BCellIdx(m, c)],
                 RSumSet([f \in BFacesOf(m, c) |->
                            RMul(recompute_dddij(m, coefbp, f),
                                 recompute_dddij(m, coefbp, f))],
                         BFacesOf(m, c))))
     ELSE cocg[c]]

\* _lsq_tensor_gradient, "Reinitialize cocg at boundaries, using saved cocgb"
lsq_tensor_reinit_cocg(m, cocgb, cocg) ==
  [c \in DOMAIN cocg |->
     IF c \in BCells(m) THEN cocgb[BCellIdx(m, c)] ELSE cocg[c]]

(***************************************************************************)
(* The right-hand side and the solve of _lsq_scalar_gradient.  A field is  *)
(* a function on the owned cells, a weight a function on all cells, a      *)
(* boundary coefficient array a sequence over the boundary faces.          *)
(***************************************************************************)
\* dsij of a boundary face: udbfs*normal + umcbdd*diipb
lsq_dsij(m, coefbp, f) ==
  LET unddij == RDiv(<<1, 1>>, R(m.b_dist[f]))
      udbfs == RDiv(<<1, 1>>, R(m.b_face_surf[f]))
      umcbdd == RMul(RAdd(<<1, 1>>, RMul(R(-1), coefbp[f])), unddij)
  IN  RAdd(RMul(udbfs, R(m.b_face_normal[f])), RMul(umcbdd, R(m.diipb[f])))

\* what interior face f adds to rhsv of its cell c
lsq_i_face_rhs(m, pvar, c_weight, f, c) ==
  LET ii == m.i_face_cells[f][1]
      jj == m.i_face_cells[f][2]
      dc == Cen(m, jj) - Cen(m, ii)
      pfac == RDiv(R(VarAt(m, pvar, jj) - VarAt(m, pvar, ii)), R(dc * dc))
      fctb == RMul(R(dc), pfac)
  IN  IF c_weight = NULL THEN fctb
      ELSE LET pond == m.weight[f]
               denom == RDiv(<<1, 1>>,
                          RAdd(RMul(pond, R(c_weight[ii])),
                               RMul(RAdd(<<1, 1>>, RMul(R(-1), pond)),
                                    R(c_weight[jj]))))
               other == IF c = ii THEN jj ELSE ii
           IN  RMul(RMul(R(c_weight[other]), denom), fctb)

\* a boundary face whose additive term is taken whatever inc
lsq_b_face_rhs_no_inc(m, inc, coefap, coefbp, pvar, f) ==
  LET ii == m.b_face_cells[f]
      unddij == RDiv(<<1, 1>>, R(m.b_dist[f]))
      pfac == RMul(RAdd(coefap[f],
                        RMul(RAdd(coefbp[f], R(-1)), R(VarAt(m, pvar, ii)))),
                   unddij)
  IN  RMul(lsq_dsij(m, coefbp, f), pfac)

\* what boundary face f adds to rhsv of its cell
lsq_b_face_rhs(m, inc, coefap, coefbp, pvar, f) ==
  LET ii == m.b_face_cells[f]
      unddij == RDiv(<<1, 1>>, R(m.b_dist[f]))
      pfac == RMul(RAdd(RMul(coefap[f], R(inc)),
                        RMul(RAdd(coefbp[f], R(-1)), R(VarAt(m, pvar, ii)))),
                   unddij)
  IN  RMul(lsq_dsij(m, coefbp, f), pfac)

lsq_scalar_rhs(m, inc, coefap, coefbp, pvar, c_weight) ==
  [c \in Cells(m) |->
     RAdd(RSumSet([f \in FacesOf(m, c) |-> lsq_i_face_rhs(m, pvar, c_weight, f, c)],
                  FacesOf(m, c)),
          RSumSet([f \in BFacesOf(m, c) |->
                     lsq_b_face_rhs(m, inc, coefap, coefbp, pvar, f)],
                  BFacesOf(m, c)))]

\* "Compute gradient": cocg times rhsv on the owned cells
lsq_scalar_solve(m, cocg, rhsv) ==
  [c \in Owned(m) |-> RMul(cocg[c], rhsv[c])]

(***************************************************************************)
(* The diagnostics registry: cs_glob_gradient_systems, sorted by name and  *)
(* then by type.                                                           *)
(***************************************************************************)
\* strcmp on the names of the model
NameRank(n) ==
  CASE n = "k" -> 1 [] n = "p" -> 2 [] n = "r" -> 3 [] n = "u" -> 4 [] OTHER -> 0
strcmp(a, b) == NameRank(a) - NameRank(b)

\* the integer division of C, towards zero
CDiv(a, b) == IF a >= 0 THEN a \div b ELSE -((-a) \div b)

\* _gradient_info_create; recorded is the history of the sweep counts
\* handed to _gradient_info_update_iter for the entry
gradient_info_create(name, type) ==
  [name |-> name, type |-> type, n_calls |-> 0,
   n_iter_min |-> 0, n_iter_max |-> 0, n_iter_tot |-> 0, recorded |-> <<>>]

\* _gradient_info_update_iter
gradient_info_update_iter(this_info, n_iter) ==
  [this_info EXCEPT
     !.n_iter_max = IF n_iter > @ THEN n_iter ELSE @,
     !.n_iter_min = IF n_iter > this_info.n_iter_max
                    THEN IF this_info.n_calls = 0 THEN n_iter ELSE @
                    ELSE IF n_iter < @ THEN n_iter ELSE @,
     !.n_iter_tot = @ + n_iter,
     !.recorded = Append(@, n_iter)]

\* a search that compares the names alone
RECURSIVE system_search_by_name(_, _, _, _, _)
system_search_by_name(sys, name, type, start_id, end_id) ==
  LET mid_id == start_id + CDiv(end_id - start_id, 2)
  IN  IF start_id > end_id THEN [cmp_ret |-> 1, mid_id |-> mid_id]
      ELSE LET cmp_ret == strcmp(sys[mid_id + 1].name, name)
           IN  IF cmp_ret < 0
               THEN system_search_by_name(sys, name, type, mid_id + 1, end_id)
               ELSE IF cmp_ret > 0
               THEN system_search_by_name(sys, name, type, start_id, mid_id - 1)
               ELSE [cmp_ret |-> 0, mid_id |-> mid_id]

\* the binary search of _find_or_add_system: cmp_ret and mid_id at its end
RECURSIVE system_search(_, _, _, _, _)
system_search(sys, name, type, start_id, end_id) ==
  LET mid_id == start_id + CDiv(end_id - start_id, 2)
  IN  IF start_id > end_id THEN [cmp_ret |-> 1, mid_id |-> mid_id]
      ELSE LET c0 == strcmp(sys[mid_id + 1].name, name)
               cmp_ret == IF c0 = 0 THEN sys[mid_id + 1].type - type ELSE c0
           IN  IF cmp_ret < 0
               THEN system_search(sys, name, type, mid_id + 1, end_id)
               ELSE IF cmp_ret > 0
               THEN system_search(sys, name, type, start_id, mid_id - 1)
               ELSE [cmp_ret |-> 0, mid_id |-> mid_id]

\* an insertion at the end of the list
find_or_add_system_at_end(sys, n_max, name, type) ==
  LET r == system_search(sys, name, type, 0, Len(sys) - 1)
  IN  IF r.cmp_ret = 0
      THEN [systems |-> sys, n_max_systems |-> n_max, id |-> r.mid_id]
      ELSE [systems |-> Append(sys, gradient_info_create(name, type)),
            n_max_systems |-> IF Len(sys) >= n_max
                              THEN IF n_max = 0 THEN 10 ELSE n_max * 2
                              ELSE n_max,
            id |-> Len(sys)]

\* _find_or_add_system: the registry and its capacity after the call, and
\* the index of the entry returned
find_or_add_system(sys, n_max, name, type) ==
  LET r == system_search(sys, name, type, 0, Len(sys) - 1)
  IN  IF r.cmp_ret = 0
      THEN [systems |-> sys, n_max_systems |-> n_max, id |-> r.mid_id]
      ELSE [systems |-> SubSeq(sys, 1, r.mid_id)
                          \o <<gradient_info_create(name, type)>>
                          \o SubSeq(sys, r.mid_id + 1, Len(sys)),
            n_max_systems |-> IF Len(sys) >= n_max
                              THEN IF n_max = 0 THEN 10 ELSE n_max * 2
                              ELSE n_max,
            id |-> r.mid_id]

\* a call of _find_or_add_system by itself; kc keeps the key, the index
\* returned and the registry before the call
find_or_add_system_call ==
  /\ pc = "idle"
  /\ \E name \in {"k", "p", "r", "u"},
        type \in {CS_GRADIENT_GREEN_ITER, CS_GRADIENT_LSQ, CS_GRADIENT_GREEN_LSQ} :
       LET found == find_or_add_system(systems, n_max_systems, name, type)
       IN  /\ systems' = found.systems
           /\ n_max_systems' = found.n_max_systems
           /\ kc' = [name |-> name, type |-> type, id |-> found.id,
                     systems_before |-> systems]
  /\ last_op' = "find_or_add_system"
  /\ UNCHANGED <<omp, mesh, pc, p, gq, epoch, unnotified, cocg_val, var_name_prev,
                 last_fvm_count, last_call>>
  /\ UNCHANGED callVars

\* the calls counted by the registry
RECURSIVE n_calls_total(_)
n_calls_total(sys) ==
  IF sys = <<>> THEN 0 ELSE Head(sys).n_calls + n_calls_total(Tail(sys))

\* cs_math_3_distance_dot_product(xa, xb, xc) (cs_math.h): (xb - xa) . xc
cs_math_3_distance_dot_product(xa, xb, xc) == (xb - xa) * xc

(***************************************************************************)
(* _lsq_scalar_gradient_hyd_p<e2n>: the least-squares solve of a scalar    *)
(* call with hydrostatic pressure, for each way of summing the interior    *)
(* faces.  f_ext is a function on the cells; poro holds i_poro_duq_0 and   *)
(* i_poro_duq_1 on the interior faces and b_poro_duq on the boundary faces *)
(* (NULL without porosity fields).  The cell-to-face adjacency lists, for  *)
(* each cell, its interior faces, with sign +1 on the first cell of a face.*)
(***************************************************************************)
lsq_scalar_gradient_hyd_p(e2n, m, cocg, inc, f_ext, poro, coefap, coefbp, pvar, c_weight_s) ==
  LET poro_0(f) == IF poro = NULL THEN <<0, 1>> ELSE R(poro.i0[f])
      poro_1(f) == IF poro = NULL THEN <<0, 1>> ELSE R(poro.i1[f])
      poro_b(f) == IF poro = NULL THEN <<0, 1>> ELSE R(poro.b[f])
      w(c) == IF c_weight_s = NULL THEN <<1, 1>> ELSE R(c_weight_s[c])
      \* dc * pfac of face f seen from cell ii towards cell jj, with pond
      \* the weight of the face on the side of ii
      fctb(f, ii, jj, pond) ==
        LET dc == Cen(m, jj) - Cen(m, ii)
            num == RAdd(RAdd(R(VarAt(m, pvar, jj) - VarAt(m, pvar, ii)),
                             RAdd(R(cs_math_3_distance_dot_product(m.i_face_cog[f], Cen(m, ii),
                                                                   f_ext[ii])),
                                  poro_0(f))),
                        RMul(R(-1),
                             RAdd(R(cs_math_3_distance_dot_product(m.i_face_cog[f], Cen(m, jj),
                                                                   f_ext[jj])),
                                  poro_1(f))))
            pfac == RDiv(num, R(dc * dc))
            pfac_w == IF c_weight_s = NULL THEN pfac
                      ELSE RDiv(pfac,
                                RAdd(RMul(pond, w(ii)),
                                     RMul(RAdd(<<1, 1>>, RMul(R(-1), pond)), w(jj))))
        IN  RMul(R(dc), pfac_w)
      c_1(f) == m.i_face_cells[f][1]
      c_2(f) == m.i_face_cells[f][2]
      other(f, c) == IF c = c_1(f) THEN c_2(f) ELSE c_1(f)
      \* what interior face f adds to rhsv of cell c
      i_ctb(f, c) ==
        IF e2n = "CS_E2N_SUM_GATHER"
        THEN RMul(w(other(f, c)),
                  fctb(f, c, other(f, c),
                       IF c = c_1(f) THEN m.weight[f]
                       ELSE RAdd(<<1, 1>>, RMul(R(-1), m.weight[f]))))
        ELSE \* scatter, atomic scatter: rhsv[ii] += c_weight_s[jj] * fctb,
             \* rhsv[jj] += c_weight_s[ii] * fctb; store then gather:
             \* rhsv[c] += c_weight_s[c2c[i]] * f_ctb[c2f[i]]
             RMul(w(other(f, c)), fctb(f, c_1(f), c_2(f), m.weight[f]))
      b_ctb(f) ==
        LET ii == m.b_face_cells[f]
            unddij == RDiv(<<1, 1>>, R(m.b_dist[f]))
            pfac == RMul(RAdd(RMul(coefap[f], R(inc)),
                              RMul(RAdd(coefbp[f], R(-1)),
                                   RAdd(R(VarAt(m, pvar, ii)
                                          + cs_math_3_distance_dot_product(
                                              m.b_face_cog[f], Cen(m, ii), f_ext[ii])),
                                        poro_b(f)))),
                         unddij)
        IN  RMul(lsq_dsij(m, coefbp, f), pfac)
  IN  [c \in Owned(m) |->
         RAdd(RMul(cocg[c],
                   RAdd(RSumSet([f \in FacesOf(m, c) |-> i_ctb(f, c)], FacesOf(m, c)),
                        RSumSet([f \in BFacesOf(m, c) |-> b_ctb(f)], BFacesOf(m, c)))),
              R(f_ext[c]))]

(***************************************************************************)
(* The Green-Gauss passes of a scalar call without hydrostatic pressure,   *)
(* and the clipping applied to the least-squares gradient of a call.       *)
(***************************************************************************)
\* ktpond of an interior face: weight[f_id], or its weighting by a scalar
\* cell weight
ktpond(m, c_weight_s, f) ==
  IF c_weight_s = NULL THEN m.weight[f]
  ELSE LET ii == m.i_face_cells[f][1]
           jj == m.i_face_cells[f][2]
           w == m.weight[f]
       IN  RDiv(RMul(w, R(c_weight_s[ii])),
                RAdd(RMul(w, R(c_weight_s[ii])),
                     RMul(RAdd(<<1, 1>>, RMul(R(-1), w)), R(c_weight_s[jj]))))

\* _reconstruct_scalar_gradient, "Standard case, without hydrostatic
\* pressure": pfaci, pfacj and rfac on the interior faces, pfac and rfac on
\* the boundary faces, the division by the cell volume
reconstruct_scalar_gradient(m, inc, coefap, coefbp, c_weight_s, c_var, rgrad) ==
  LET i_term(f, c) ==
        LET c_id1 == m.i_face_cells[f][1]
            c_id2 == m.i_face_cells[f][2]
            kt == ktpond(m, c_weight_s, f)
            d == R(VarAt(m, c_var, c_id2) - VarAt(m, c_var, c_id1))
            pfaci == RMul(RAdd(<<1, 1>>, RMul(R(-1), kt)), d)
            pfacj == RMul(RMul(R(-1), kt), d)
            rfac == RMul(<<1, 2>>, RMul(R(m.dofij[f]),
                                        RAdd(rgrad[c_id1], rgrad[c_id2])))
        IN  IF c = c_id1
            THEN RMul(RAdd(pfaci, rfac), R(m.i_f_face_normal[f]))
            ELSE RMul(R(-1), RMul(RAdd(pfacj, rfac), R(m.i_f_face_normal[f])))
      b_term(f) ==
        LET c_id == m.b_face_cells[f]
            pfac == RAdd(RMul(R(inc), coefap[f]),
                         RMul(RAdd(coefbp[f], R(-1)), R(c_var[c_id])))
            rfac == RMul(coefbp[f], RMul(R(m.diipb[f]), rgrad[c_id]))
        IN  RMul(RAdd(pfac, rfac), R(m.b_face_normal[f]))
  IN  [c \in Owned(m) |->
         RMul(RDiv(<<1, 1>>, R(m.cell_f_vol[c + 1])),
              RAdd(RSumSet([f \in FacesOf(m, c) |-> i_term(f, c)], FacesOf(m, c)),
                   RSumSet([f \in BFacesOf(m, c) |-> b_term(f)], BFacesOf(m, c))))]

\* _initialize_scalar_gradient, "Standard case, without hydrostatic
\* pressure": pfaci and pfacj on the interior faces, pfac on the boundary
\* faces, the division by the cell volume
initialize_scalar_gradient(m, inc, coefap, coefbp, pvar, c_weight_s) ==
  LET i_term(f, c) ==
        LET ii == m.i_face_cells[f][1]
            jj == m.i_face_cells[f][2]
            kt == ktpond(m, c_weight_s, f)
            d == R(VarAt(m, pvar, jj) - VarAt(m, pvar, ii))
            pfaci == RMul(RAdd(<<1, 1>>, RMul(R(-1), kt)), d)
            pfacj == RMul(RMul(R(-1), kt), d)
        IN  IF c = ii
            THEN RMul(pfaci, R(m.i_f_face_normal[f]))
            ELSE RMul(R(-1), RMul(pfacj, R(m.i_f_face_normal[f])))
      b_term(f) ==
        LET ii == m.b_face_cells[f]
            pfac == RAdd(RMul(R(inc), coefap[f]),
                         RMul(RAdd(coefbp[f], R(-1)), R(pvar[ii])))
        IN  RMul(pfac, R(m.b_face_normal[f]))
  IN  [c \in Owned(m) |->
         RMul(RDiv(<<1, 1>>, R(m.cell_f_vol[c + 1])),
              RAdd(RSumSet([f \in FacesOf(m, c) |-> i_term(f, c)], FacesOf(m, c)),
                   RSumSet([f \in BFacesOf(m, c) |-> b_term(f)], BFacesOf(m, c))))]

\* _scalar_gradient_clipping applied to the gradient of the owned cells of
\* a call with arguments a
scalar_gradient_clipping(m, a, rgrad) ==
  IF clip_algorithm(1, a.clip_mode) = "none" THEN rgrad
  ELSE LET prm == [dim |-> 1, halo_type |-> "STANDARD", clip_mode |-> a.clip_mode,
                   clip_coeff |-> a.clip_coeff, var |-> a.var,
                   gradient_type |-> a.gradient_type]
           buf == cs_halo_sync_var_strided(m,
                    [k \in Rows(m, 1) |-> IF k < m.n_cells THEN rgrad[k] ELSE Junk],
                    3)
           st == clip_run(m, prm, ClipStart(buf), clipping_stages(m, 1, a.clip_mode))
       IN  [c \in Owned(m) |-> st.buf[c]]

\* the squared l2 norm of a gradient over the owned cells
l2_norm_sq(m, g) == RSumSet([c \in Owned(m) |-> RMul(g[c], g[c])], Owned(m))

(***************************************************************************)
(* The public functions, followed from one call to the next: registry,     *)
(* static variables of _gradient_scalar, values of the least-squares       *)
(* matrices of the mesh (no coupling, standard neighbourhood).             *)
(***************************************************************************)
ScalarEntries == {"cs_gradient_scalar", "cs_gradient_scalar_synced_input"}
VectorEntries == {"cs_gradient_vector", "cs_gradient_vector_synced_input"}
TensorEntries == {"cs_gradient_tensor", "cs_gradient_tensor_synced_input"}

entry_dim(fn) ==
  IF fn \in ScalarEntries THEN 1 ELSE IF fn \in VectorEntries THEN 3 ELSE 6

\* the last argument cs_gradient_scalar_synced_input and cs_gradient_scalar
\* hand to _gradient_scalar
check_recompute_cocg(fn) == fn = "cs_gradient_scalar_synced_input"

\* cs_mesh_quantities_compute_count(): the geometry is computed once before
\* the first gradient call
cs_mesh_quantities_compute_count == epoch + 1

\* a test on the name alone
recompute_cocg_name_only(check, prev_name, name, inc, last_count, count) ==
  IF ~check THEN TRUE
  ELSE IF last_count # count THEN TRUE
  ELSE prev_name # name

\* recompute_cocg as _gradient_scalar sets it
recompute_cocg(check, prev_name, name, inc, last_count, count) ==
  IF ~check THEN TRUE
  ELSE IF last_count # count THEN TRUE
  ELSE ~(prev_name = name /\ inc = 0)

\* the boundary coefficients _gradient_scalar works with
bc_coeff_a_used(m, bc_coeff_a) ==
  IF bc_coeff_a = NULL THEN [f \in 1..Len(m.b_face_cells) |-> <<0, 1>>]
  ELSE bc_coeff_a

\* a default that sets the linear term to zero
bc_coeff_b_zero(m, bc_coeff_b) ==
  IF bc_coeff_b = NULL THEN [f \in 1..Len(m.b_face_cells) |-> <<0, 1>>]
  ELSE bc_coeff_b

bc_coeff_b_used(m, bc_coeff_b) ==
  IF bc_coeff_b = NULL THEN [f \in 1..Len(m.b_face_cells) |-> <<1, 1>>]
  ELSE bc_coeff_b

\* the anisotropic solve, which builds matrices of its own
uses_ani(a) == a.w_stride = 6 /\ a.c_weight # NULL

\* the entry of a public function up to the switch on the scheme
cs_gradient_entry(a) ==
  /\ pc = "idle"
  /\ n_calls_total(systems) < MaxCalls
  /\ LET dim == entry_dim(a.fn)
         type == gradient_type_used(dim, a.gradient_type)
         found == find_or_add_system(systems, n_max_systems, a.var_name, type)
         count == cs_mesh_quantities_compute_count
         check == check_recompute_cocg(a.fn)
     IN  /\ systems' = found.systems
         /\ n_max_systems' = found.n_max_systems
         /\ var_name_prev' = IF dim = 1 THEN a.var_name ELSE var_name_prev
         /\ last_fvm_count' = IF dim = 1 /\ check THEN count ELSE last_fvm_count
         /\ kc' = [args |-> a, dim |-> dim, gradient_type |-> type,
                   n_calls_before |-> found.systems[found.id + 1].n_calls,
                   systems_before |-> systems,
                   recompute_cocg |->
                     IF dim = 1
                     THEN recompute_cocg(check, var_name_prev, a.var_name, a.inc,
                                         last_fvm_count, count)
                     ELSE TRUE,
                   prev_name |-> var_name_prev,
                   prev |-> last_call,
                   coefap |-> bc_coeff_a_used(mesh, a.bc_coeff_a),
                   coefbp |-> bc_coeff_b_used(mesh, a.bc_coeff_b),
                   acc |-> <<>>, read |-> <<>>, as_inverse |-> {},
                   grad |-> <<>>, zero_norm_return |-> FALSE,
                   populated |-> FALSE, fatal |-> FALSE]
  /\ last_call' = [var_name |-> a.var_name, inc |-> a.inc, epoch |-> epoch]
  /\ pc' = "k_switch"
  /\ last_op' = "cs_gradient_entry"
  /\ UNCHANGED <<omp, mesh, p, gq, epoch, unnotified, cocg_val>>
  /\ UNCHANGED callVars

LsqScheme(k) == k.gradient_type \in {CS_GRADIENT_LSQ, CS_GRADIENT_GREEN_LSQ}

CocgMiss == Len(gq) = 0 \/ gq[1].cocg_lsq = NULL

\* _get_cell_cocg_lsq as called by _lsq_scalar_gradient, _lsq_vector_gradient
\* and _lsq_tensor_gradient: the matrices are built when there are none
cs_gradient_lsq_get_cocg ==
  /\ pc = "k_switch"
  /\ LsqScheme(kc) /\ ~(kc.dim = 1 /\ uses_ani(kc.args))
  /\ gq' = get_cell_cocg_lsq(mesh, gq, "STANDARD", NULL, epoch)
  /\ cocg_val' = IF CocgMiss THEN compute_cell_cocg_lsq_val(mesh) ELSE cocg_val
  /\ kc' = [kc EXCEPT !.acc = IF CocgMiss THEN @ \o <<"build">> ELSE @]
  /\ pc' = "k_cocg"
  /\ last_op' = "cs_gradient_lsq_get_cocg"
  /\ UNCHANGED <<omp, mesh, p, epoch, unnotified, systems, n_max_systems, var_name_prev,
                 last_fvm_count, last_call>>
  /\ UNCHANGED callVars

\* what follows the lookup: the scalar solve recomputes the boundary cells
\* when recompute_cocg is set, the tensor solve copies cocgb over them, the
\* vector solve leaves the matrices alone
cs_gradient_lsq_boundary ==
  /\ pc = "k_cocg"
  /\ IF kc.dim = 1 /\ kc.recompute_cocg
     THEN /\ cocg_val' = [cocg_val EXCEPT !.cocg =
                            recompute_lsq_scalar_cocg(mesh, kc.coefbp,
                                                      cocg_val.cocgb, @)]
          /\ kc' = [kc EXCEPT !.acc = @ \o <<"recompute">>]
     ELSE IF kc.dim = 6
     THEN /\ cocg_val' = [cocg_val EXCEPT !.cocg =
                            lsq_tensor_reinit_cocg(mesh, cocg_val.cocgb, @)]
          /\ kc' = [kc EXCEPT !.acc = @ \o <<"reinit">>]
     ELSE UNCHANGED <<cocg_val, kc>>
  /\ pc' = "k_bdry"
  /\ last_op' = "cs_gradient_lsq_boundary"
  /\ UNCHANGED <<omp, mesh, p, gq, epoch, unnotified, systems, n_max_systems, var_name_prev,
                 last_fvm_count, last_call>>
  /\ UNCHANGED callVars

\* the cells whose returned gradient is the cached matrix times the
\* right-hand side: the vector and tensor solves redo the boundary cells
\* with a matrix of their own
cells_solved_with_cocg(m, dim) ==
  IF dim = 1 THEN Owned(m) ELSE Owned(m) \ BCells(m)

\* the right-hand side and the loop "Compute gradient" over the owned cells,
\* then for a scalar call the clipping and the reconstruction of the hybrid
\* scheme
cs_gradient_lsq_solve ==
  /\ pc = "k_bdry"
  /\ kc' = [kc EXCEPT
              !.acc = @ \o <<"read">>,
              !.read = [c \in Owned(mesh) |-> cocg_val.cocg[c]],
              !.as_inverse = cells_solved_with_cocg(mesh, kc.dim),
              !.grad =
                 IF kc.dim = 1
                 THEN LET a == kc.args
                          rgrad == scalar_gradient_clipping(mesh, a,
                                     IF a.hyd_p_flag # 0
                                     THEN lsq_scalar_gradient_hyd_p(
                                            a.e2n_sum_type, mesh, cocg_val.cocg,
                                            a.inc, a.f_ext, a.poro, kc.coefap,
                                            kc.coefbp, a.var, a.c_weight)
                                     ELSE lsq_scalar_solve(mesh, cocg_val.cocg,
                                            lsq_scalar_rhs(mesh, a.inc, kc.coefap,
                                                           kc.coefbp, a.var,
                                                           a.c_weight)))
                      IN  IF kc.gradient_type = CS_GRADIENT_GREEN_LSQ
                          THEN reconstruct_scalar_gradient(mesh, a.inc,
                                 kc.coefap, kc.coefbp,
                                 IF a.w_stride = 1 THEN a.c_weight ELSE NULL,
                                 a.var, rgrad)
                          ELSE rgrad
                 ELSE <<>>,
              !.populated = TRUE]
  /\ pc' = "k_done"
  /\ last_op' = "cs_gradient_lsq_solve"
  /\ UNCHANGED <<omp, mesh, p, gq, epoch, unnotified, systems, n_max_systems, cocg_val,
                 var_name_prev, last_fvm_count, last_call>>
  /\ UNCHANGED callVars

\* case CS_GRADIENT_GREEN_ITER of a public function, followed as one step:
\* the initialisation, and the driver with its lookup of the matrices of the
\* iterative scheme when the driver is called.  grad is the gradient of the
\* initialisation of a scalar call (scalar or no weight, no hydrostatic
\* pressure); zero_norm_return tells that the driver has returned on
\* rnorm <= cs_math_epzero, so that grad is what the call returns.  The
\* values the sweeps give otherwise are not followed here, nor is their
\* number: a driver that is called hands _gradient_info_update_iter 0 when
\* it returns before its loop and a count from 1 to n_r_sweeps otherwise.
cs_gradient_green_iter ==
  /\ pc = "k_switch"
  /\ kc.gradient_type = CS_GRADIENT_GREEN_ITER
  /\ gq' = IF driver_called(kc.dim, kc.args.n_r_sweeps)
            THEN get_cell_cocg_it(gq, NULL, epoch)
            ELSE gq
  /\ LET a == kc.args
         followed == kc.dim = 1 /\ a.hyd_p_flag = 0
                     /\ ~(a.c_weight # NULL /\ a.w_stride = 6)
         c_weight_s == IF a.w_stride = 1 THEN a.c_weight ELSE NULL
         g == initialize_scalar_gradient(mesh, a.inc, kc.coefap, kc.coefbp,
                                         a.var, c_weight_s)
         id == find_or_add_system(systems, n_max_systems, a.var_name,
                                  kc.gradient_type).id
     IN  /\ kc' = [kc EXCEPT
                     !.grad = IF followed THEN g ELSE <<>>,
                     !.zero_norm_return =
                        followed /\ norm_is_zero(l2_norm_sq(mesh, g)),
                     !.populated = TRUE]
         /\ IF driver_called(kc.dim, a.n_r_sweeps)
            THEN \E n_iter \in IF kc'.zero_norm_return \/ a.n_r_sweeps < 1 THEN {0}
                                ELSE IF followed THEN 1..a.n_r_sweeps
                                ELSE 0..a.n_r_sweeps :
                   systems' = [systems EXCEPT
                                 ![id + 1] = gradient_info_update_iter(@, n_iter)]
            ELSE UNCHANGED systems
  /\ pc' = "k_done"
  /\ last_op' = "cs_gradient_green_iter"
  /\ UNCHANGED <<omp, mesh, p, epoch, unnotified, n_max_systems, cocg_val,
                 var_name_prev, last_fvm_count, last_call>>
  /\ UNCHANGED callVars

\* _lsq_scalar_gradient_ani, followed as one step: it sums and inverts
\* matrices of its own and leaves the cached ones alone
cs_gradient_lsq_ani ==
  /\ pc = "k_switch"
  /\ LsqScheme(kc) /\ kc.dim = 1 /\ uses_ani(kc.args)
  /\ kc' = [kc EXCEPT !.populated = TRUE]
  /\ pc' = "k_done"
  /\ last_op' = "cs_gradient_lsq_ani"
  /\ UNCHANGED <<omp, mesh, p, gq, epoch, unnotified, systems, n_max_systems, cocg_val,
                 var_name_prev, last_fvm_count, last_call>>
  /\ UNCHANGED callVars

\* the end of a public function: gradient_info->n_calls += 1
cs_gradient_exit ==
  /\ pc = "k_done"
  /\ LET id == find_or_add_system(systems, n_max_systems, kc.args.var_name,
                                   kc.gradient_type).id
     IN  systems' = [systems EXCEPT ![id + 1].n_calls = @ + 1]
  /\ UNCHANGED n_max_systems
  /\ pc' = "returned"
  /\ last_op' = "cs_gradient_exit"
  /\ UNCHANGED <<omp, mesh, p, gq, epoch, unnotified, cocg_val, var_name_prev,
                 last_fvm_count, kc, last_call>>
  /\ UNCHANGED callVars

(***************************************************************************)
(* The single-cell variant cs_gradient_scalar_cell (standard neighbourhood: *)
(* the cells adjacent to c_id are those across its interior faces).         *)
(***************************************************************************)
\* cs_gradient_scalar_cell: cocg and rhsv summed over the adjacent cells and
\* over the boundary faces of the cell, and the gradient
cs_gradient_scalar_cell(m, c_id, bc_coeff_a, bc_coeff_b, var, c_weight) ==
  LET adj == FacesOf(m, c_id)
      bf == BFacesOf(m, c_id)
      c_id1(f) == IF m.i_face_cells[f][1] = c_id THEN m.i_face_cells[f][2]
                  ELSE m.i_face_cells[f][1]
      dc(f) == Cen(m, c_id1(f)) - Cen(m, c_id)
      ddc(f) == RDiv(<<1, 1>>, R(dc(f) * dc(f)))
      pfac(f) == RMul(R(VarAt(m, var, c_id1(f)) - var[c_id]), ddc(f))
      weight_(f) == IF c_weight = NULL THEN <<1, 1>>
                    ELSE RDiv(R(2 * c_weight[c_id1(f)]),
                              R(c_weight[c_id] + c_weight[c_id1(f)]))
      udbfs(f) == RDiv(<<1, 1>>, R(m.b_face_surf[f]))
      unddij(f) == RDiv(<<1, 1>>, R(m.b_dist[f]))
      umcbdd(f) == RMul(RAdd(<<1, 1>>, RMul(R(-1), bc_coeff_b[f])), unddij(f))
      dsij(f) == RAdd(RMul(udbfs(f), R(m.b_face_normal[f])),
                      RMul(umcbdd(f), R(m.diipb[f])))
      pfac_bc(f) == RMul(RAdd(bc_coeff_a[f],
                              RMul(RAdd(bc_coeff_b[f], R(-1)), R(var[c_id]))),
                         unddij(f))
      dcb(f) == m.b_face_cog[f] - Cen(m, c_id)
      ddcb(f) == RDiv(<<1, 1>>, R(dcb(f) * dcb(f)))
      pfac_val(f) == RMul(RAdd(bc_coeff_a[f], R(-var[c_id])), ddcb(f))
      b_rhsv(f) == IF bc_coeff_a # NULL /\ bc_coeff_b # NULL
                   THEN RMul(dsij(f), pfac_bc(f))
                   ELSE IF bc_coeff_a # NULL
                   THEN RMul(R(dcb(f)), pfac_val(f))
                   ELSE <<0, 1>>
      b_cocg(f) == IF bc_coeff_a # NULL /\ bc_coeff_b # NULL
                   THEN RMul(dsij(f), dsij(f))
                   ELSE RMul(R(dcb(f) * dcb(f)), ddcb(f))
      rhsv == RAdd(RSumSet([f \in adj |->
                              RMul(RMul(R(dc(f)), pfac(f)), weight_(f))], adj),
                   RSumSet([f \in bf |-> b_rhsv(f)], bf))
      cocg == RAdd(RSumSet([f \in adj |-> RMul(R(dc(f) * dc(f)), ddc(f))], adj),
                   RSumSet([f \in bf |-> b_cocg(f)], bf))
  IN  [cocg |-> cocg, rhsv |-> rhsv, grad |-> RDiv(rhsv, cocg)]

\* a call of cs_gradient_scalar_cell: no state of the engine is read or
\* written
cs_gradient_scalar_cell_call(a) ==
  /\ pc = "idle"
  /\ kc' = [args |-> a,
            out |-> cs_gradient_scalar_cell(mesh, a.c_id, a.bc_coeff_a,
                                            a.bc_coeff_b, a.var, a.c_weight)]
  /\ pc' = "returned"
  /\ last_op' = "cs_gradient_scalar_cell"
  /\ UNCHANGED <<omp, mesh, p, gq, epoch, unnotified, systems, n_max_systems, cocg_val,
                 var_name_prev, last_fvm_count, last_call>>
  /\ UNCHANGED callVars

(***************************************************************************)
(* The loops run by OpenMP threads.  A thread executes a list of updates   *)
(* of cell values, each of them a load followed by a store (x[c] += ...,   *)
(* x[c] *= ... are not atomic).  The value of a cell records what was done *)
(* to it: the faces whose contribution it holds, the number of scalings,   *)
(* and whether a contribution arrived after a scaling.                     *)
(***************************************************************************)
MaxThreads == 2
MaxGroups == 2

Threads == 1..MaxThreads
Groups == 0..(MaxGroups - 1)

MaxOfInts(S) == CHOOSE x \in S : \A y \in S : y <= x
MinOfInts(S) == CHOOSE x \in S : \A y \in S : x <= y

RECURSIVE Ascending(_)
Ascending(S) ==
  IF S = {} THEN <<>>
  ELSE LET lo == CHOOSE x \in S : \A y \in S : x <= y
       IN  <<lo>> \o Ascending(S \ {lo})

RECURSIVE Flatten(_)
Flatten(ss) == IF ss = <<>> THEN <<>> ELSE Head(ss) \o Flatten(Tail(ss))

IsRange(S) == \A a, b \in S : a..b \subseteq S

i_face_cells_of(m, f) == {m.i_face_cells[f][1], m.i_face_cells[f][2]}

\* m->i_face_numbering: the faces of thread t_id in group g_id are the range
\* group_index[(t_id*n_groups + g_id)*2] .. group_index[...*2 + 1]; asg[f]
\* is the <<t_id, g_id>> whose range holds f
block_faces(asg, slot) == {f \in DOMAIN asg : asg[f] = slot}

\* what the numbering of the mesh guarantees: faces of one group handled by
\* different threads share no cell
numbering_no_shared_cell(m, asg) ==
  \A f1, f2 \in DOMAIN asg :
     (asg[f1][2] = asg[f2][2] /\ asg[f1][1] # asg[f2][1])
       => i_face_cells_of(m, f1) \cap i_face_cells_of(m, f2) = {}

i_face_numberings(m) ==
  {asg \in [1..Len(m.i_face_cells) -> Threads \X Groups] :
     /\ \A slot \in Threads \X Groups : IsRange(block_faces(asg, slot))
     /\ numbering_no_shared_cell(m, asg)}

\* m->b_face_numbering: one group, the faces of thread t_id are the range
\* group_index[t_id*2] .. group_index[t_id*2 + 1]
b_face_numberings(m) ==
  UNION {{[n_threads |-> n, asg |-> asg] :
            asg \in {x \in [1..Len(m.b_face_cells) -> 1..n] :
                       \A t \in 1..n : IsRange(block_faces(x, t))}} :
         n \in Threads}

cell_zero == [ctb |-> {}, scaled |-> 0, late |-> FALSE]

\* x[cell] += contribution of a face; x[cell] *= dvol
apply_op(op, v) ==
  IF op.kind = "add"
  THEN [ctb |-> v.ctb \cup {op.tag}, scaled |-> v.scaled,
        late |-> v.late \/ v.scaled > 0]
  ELSE [v EXCEPT !.scaled = @ + 1]

\* the body of an interior-face loop: x[ii] += ..., x[jj] += ...
i_face_ops(m, f) ==
  << [cell |-> m.i_face_cells[f][1], kind |-> "add", tag |-> <<"i", f>>],
     [cell |-> m.i_face_cells[f][2], kind |-> "add", tag |-> <<"i", f>>] >>

i_block_ops(m, asg, t, g) ==
  IF g \in Groups
  THEN LET fs == Ascending(block_faces(asg, <<t, g>>))
       IN  Flatten([i \in 1..Len(fs) |-> i_face_ops(m, fs[i])])
  ELSE <<>>

\* the end of a "#pragma omp parallel for" without its implicit barrier
omp_barrier_nowait(th, t) == TRUE

\* the implicit barrier that ends the "#pragma omp parallel for" of a group:
\* the loop on groups goes on once every thread is through the group
omp_barrier(th, t) ==
  \A u \in DOMAIN th :
     th[u].g > th[t].g \/ (th[u].g = th[t].g /\ th[u].todo = <<>>)

omp_threads_done(th) == \A t \in DOMAIN th : th[t].todo = <<>> /\ th[t].tmp = NULL

\* a thread loads the value its next update works on
omp_thread_load ==
  /\ omp # NULL
  /\ \E t \in DOMAIN omp.th :
       /\ omp.th[t].todo # <<>>
       /\ omp.th[t].tmp = NULL
       /\ omp' = [omp EXCEPT !.th[t].tmp = <<omp.val[Head(omp.th[t].todo).cell]>>]
  /\ UNCHANGED seqVars

\* and stores the updated value
omp_thread_store ==
  /\ omp # NULL
  /\ \E t \in DOMAIN omp.th :
       /\ omp.th[t].tmp # NULL
       /\ LET op == Head(omp.th[t].todo)
          IN  omp' = [omp EXCEPT !.val[op.cell] = apply_op(op, omp.th[t].tmp[1]),
                                 !.th[t].todo = Tail(@),
                                 !.th[t].tmp = NULL]
  /\ UNCHANGED seqVars

\* a thread goes from the faces of one group to those of the next
omp_next_group ==
  /\ omp # NULL
  /\ omp.phase = "interior"
  /\ \E t \in DOMAIN omp.th :
       /\ omp.th[t].todo = <<>>
       /\ omp.th[t].g < MaxGroups
       /\ omp_barrier(omp.th, t)
       /\ omp' = [omp EXCEPT !.th[t].g = @ + 1,
                              !.th[t].todo = i_block_ops(mesh, omp.numbering, t,
                                                         omp.th[t].g + 1)]
  /\ UNCHANGED seqVars

i_threads_start(m, asg) ==
  [t \in Threads |-> [g |-> 0, todo |-> i_block_ops(m, asg, t, 0), tmp |-> NULL]]

\* a loop on the interior faces, by groups and threads, that accumulates
\* into the two cells of each face
i_faces_loop_begin ==
  /\ pc = "idle"
  /\ omp = NULL
  /\ \E asg \in i_face_numberings(mesh) :
       omp' = [fn |-> "i_faces_loop", phase |-> "interior", numbering |-> asg,
               th |-> i_threads_start(mesh, asg),
               val |-> [c \in Cells(mesh) |-> cell_zero]]
  /\ UNCHANGED seqVars

i_faces_loop_end ==
  /\ omp # NULL
  /\ omp.fn = "i_faces_loop"
  /\ omp.phase = "interior"
  /\ \A t \in DOMAIN omp.th : omp.th[t].g = MaxGroups
  /\ omp' = [omp EXCEPT !.phase = "done"]
  /\ UNCHANGED seqVars

\* the caller goes on
omp_return ==
  /\ omp # NULL
  /\ omp.phase = "done"
  /\ omp' = NULL
  /\ UNCHANGED seqVars

(***************************************************************************)
(* cs_gradient_porosity_balance(inc).  No cell is disabled (has_dc = 0).   *)
(***************************************************************************)
\* what a thread of the loop on boundary faces does: the contributions of
\* its boundary faces, then the loop "Finalisation of cell terms" on all
\* the cells, which stands inside the loop on threads
b_thread_ops(m, asg, t) ==
  LET fs == Ascending(block_faces(asg, t))
  IN  [i \in 1..Len(fs) |->
         [cell |-> m.b_face_cells[fs[i]], kind |-> "add", tag |-> <<"b", fs[i]>>]]
      \o [i \in 1..m.n_cells |-> [cell |-> i - 1, kind |-> "scale", tag |-> <<"c", i - 1>>]]

\* entry: return when the porosity fields are absent; c_poro_div_duq = 0;
\* with inc = 1 the loop on interior faces starts, otherwise the face
\* arrays are zeroed and the function returns
porosity_balance_begin ==
  /\ pc = "idle"
  /\ omp = NULL
  /\ \E inc \in {0, 1}, has_poro \in BOOLEAN,
        asg \in i_face_numberings(mesh), b_num \in b_face_numberings(mesh) :
       omp' = [fn |-> "cs_gradient_porosity_balance", inc |-> inc,
               phase |-> IF has_poro /\ inc = 1 THEN "interior" ELSE "done",
               numbering |-> asg, b_numbering |-> b_num,
               th |-> IF has_poro /\ inc = 1 THEN i_threads_start(mesh, asg) ELSE <<>>,
               val |-> IF has_poro THEN [c \in Cells(mesh) |-> cell_zero] ELSE NULL]
  /\ UNCHANGED seqVars

\* from the loop on interior faces to the parallel loop on boundary faces
porosity_balance_boundary ==
  /\ omp # NULL
  /\ omp.fn = "cs_gradient_porosity_balance"
  /\ omp.phase = "interior"
  /\ \A t \in DOMAIN omp.th : omp.th[t].g = MaxGroups
  /\ omp' = [omp EXCEPT
               !.phase = "boundary",
               !.th = [t \in 1..omp.b_numbering.n_threads |->
                         [g |-> 0,
                          todo |-> b_thread_ops(mesh, omp.b_numbering.asg, t),
                          tmp |-> NULL]]]
  /\ UNCHANGED seqVars

\* the end of the parallel loop, then the halo synchronization
porosity_balance_end ==
  /\ omp # NULL
  /\ omp.fn = "cs_gradient_porosity_balance"
  /\ omp.phase = "boundary"
  /\ omp_threads_done(omp.th)
  /\ omp' = [omp EXCEPT
               !.phase = "done",
               !.val = [c \in Cells(mesh) |->
                          IF c \in Ghosts(mesh) THEN omp.val[HaloSrc(mesh, c)]
                          ELSE omp.val[c]]]
  /\ UNCHANGED seqVars

(***************************************************************************)
(* The parallel region that ends the clipping functions: the scaling of    *)
(* the owned cells and the statistics min_factor, max_factor, n_clip.      *)
(***************************************************************************)
\* the cells that "#pragma omp for" hands to each thread: consecutive
\* ranges in the order of the threads
cell_schedules(m) ==
  UNION {{s \in [Owned(m) -> 1..n] : \A c, d \in Owned(m) : c <= d => s[c] <= s[d]} :
         n \in Threads}

\* the test that makes a cell count: "denum > climgp * denom" in the
\* cell-based algorithm, "clip_factor < 0.99" in the face-based one
clip_counted(alg, dim, climgp, denum, denom, factor) ==
  [c \in DOMAIN factor |->
     IF alg = "cell" THEN clip_exceeds(dim, climgp, denum[c], denom[c])
     ELSE RLt(factor[c], <<99, 100>>)]

\* t_n_clip, t_min_factor, t_max_factor of a thread at the end of its loop
clip_thread_partial(cells, counted, factor, min0, max0) ==
  [n_clip |-> Cardinality({c \in cells : counted[c]}),
   min_factor |-> MinOf({min0} \cup {factor[c] : c \in {x \in cells : counted[x]}}),
   max_factor |-> MaxOf({max0} \cup {factor[c] : c \in {x \in cells : counted[x]}})]

\* min_factor = CS_MIN(min_factor, t_min_factor); max_factor = CS_MAX(...);
\* n_clip += t_n_clip; also MPI_MIN, MPI_MAX, MPI_SUM on two ranks
clip_merge(a, b) ==
  [n_clip |-> a.n_clip + b.n_clip,
   min_factor |-> RMin(a.min_factor, b.min_factor),
   max_factor |-> RMax(a.max_factor, b.max_factor)]

\* min_factor = 1, max_factor = 0, n_clip = 0
clip_stats_zero == [n_clip |-> 0, min_factor |-> <<1, 1>>, max_factor |-> <<0, 1>>]

\* what the other rank reports (NULL: n_domains = 1)
OtherRankStats ==
  {NULL, clip_stats_zero,
   [n_clip |-> 2, min_factor |-> <<1, 4>>, max_factor |-> <<3, 4>>]}

\* a block without mutual exclusion
omp_critical_absent(th, t) == TRUE

\* "#pragma omp critical": one thread at a time
omp_critical(th, t) == \A u \in DOMAIN th : th[u].pc # "critical"

\* the clipping function up to its last parallel region
clipping_begin ==
  /\ pc = "solved"
  /\ omp = NULL
  /\ clipping_stages(mesh, p.dim, p.clip_mode) # <<>>
  /\ LET st == clip_run(mesh, p, ClipStart(Work),
                        clipping_stages(mesh, p.dim, p.clip_mode))
     IN  \E s \in cell_schedules(mesh), other \in OtherRankStats :
           omp' = [fn |-> "gradient_clipping", phase |-> "apply",
                   schedule |-> s, other |-> other,
                   factor |-> st.factor,
                   counted |-> clip_counted(clip_algorithm(p.dim, p.clip_mode),
                                            p.dim, p.clip_coeff,
                                            st.denum, st.denom, st.factor),
                   shared |-> clip_stats_zero,
                   th |-> [t \in 1..MaxOfInts({s[c] : c \in Owned(mesh)}) |->
                             [pc |-> "start", part |-> NULL, tmp |-> NULL]]]
  /\ pc' = "clipping"
  /\ last_op' = "clipping_begin"
  /\ UNCHANGED kvars
  /\ UNCHANGED <<mesh, p, grad, r_grad, n_sweeps, sweeps_run, residual_sq,
                 rnorm_sq, broke, warning, log, clip, gq, epoch, cocg_read,
                 unnotified>>

\* a thread sets its partial results from the shared ones and runs its
\* share of the loop on cells
clip_thread_loop ==
  /\ omp # NULL
  /\ omp.fn = "gradient_clipping"
  /\ \E t \in DOMAIN omp.th :
       /\ omp.th[t].pc = "start"
       /\ omp' = [omp EXCEPT
                    !.th[t].pc = "loop_done",
                    !.th[t].part =
                       clip_thread_partial({c \in Owned(mesh) : omp.schedule[c] = t},
                                           omp.counted, omp.factor,
                                           omp.shared.min_factor,
                                           omp.shared.max_factor)]
  /\ UNCHANGED seqVars

\* past the barrier that ends the loop, a thread enters the critical block
\* and reads the shared results
clip_thread_enter ==
  /\ omp # NULL
  /\ omp.fn = "gradient_clipping"
  /\ \E t \in DOMAIN omp.th :
       /\ omp.th[t].pc = "loop_done"
       /\ \A u \in DOMAIN omp.th : omp.th[u].pc # "start"
       /\ omp_critical(omp.th, t)
       /\ omp' = [omp EXCEPT !.th[t].pc = "critical", !.th[t].tmp = omp.shared]
  /\ UNCHANGED seqVars

\* and writes them merged with its own
clip_thread_leave ==
  /\ omp # NULL
  /\ omp.fn = "gradient_clipping"
  /\ \E t \in DOMAIN omp.th :
       /\ omp.th[t].pc = "critical"
       /\ omp' = [omp EXCEPT !.th[t].pc = "done", !.th[t].tmp = NULL,
                              !.shared = clip_merge(omp.th[t].tmp, omp.th[t].part)]
  /\ UNCHANGED seqVars

\* the end of the parallel region, the reductions over the ranks and the
\* rest of the function
clipping_end ==
  /\ pc = "clipping"
  /\ omp # NULL
  /\ omp.phase = "apply"
  /\ \A t \in DOMAIN omp.th : omp.th[t].pc = "done"
  /\ omp' = [omp EXCEPT !.phase = "done",
                         !.shared = IF omp.other = NULL THEN @
                                    ELSE clip_merge(@, omp.other)]
  /\ LET stages == clipping_stages(mesh, p.dim, p.clip_mode)
         st == clip_run(mesh, p, ClipStart(Work), stages)
     IN  /\ SetWork(st.buf)
         /\ log' = log \o st.log
         /\ clip' = [before |-> st.before, after |-> st.after,
                     factor |-> st.factor, in_synced |-> st.in_synced,
                     den_synced |-> st.den_synced,
                     denum |-> st.denum, denom |-> st.denom]
  /\ pc' = IF UsesRGrad(p) THEN "clipped" ELSE "switch_done"
  /\ last_op' = "gradient_clipping"
  /\ UNCHANGED kvars
  /\ UNCHANGED <<mesh, p, n_sweeps, sweeps_run, residual_sq, rnorm_sq, broke,
                 warning, gq, epoch, cocg_read, unnotified>>

(***************************************************************************)
(* Between calls: the mesh-changed notification and the recomputation of   *)
(* the mesh quantities.                                                    *)
(***************************************************************************)
\* a notification that forgets the extended least-squares arrays
cs_gradient_free_quantities_not_ext ==
  /\ pc = "idle"
  /\ gq' = [i \in 1..Len(gq) |->
              [gq[i] EXCEPT !.cocg_it = NULL, !.cocg_lsq = NULL,
                            !.cocgb_s_lsq = NULL]]
  /\ unnotified' = FALSE
  /\ last_op' = "cs_gradient_free_quantities"
  /\ cocg_val' = NULL
  /\ UNCHANGED <<systems, n_max_systems, var_name_prev, last_fvm_count, kc, last_call>>
  /\ UNCHANGED <<omp, mesh, pc, p, epoch>>
  /\ UNCHANGED callVars

\* a notification that forgets the matrices of the iterative drivers
cs_gradient_free_quantities_not_it ==
  /\ pc = "idle"
  /\ gq' = [i \in 1..Len(gq) |->
              [gradient_quantities_new EXCEPT !.cocg_it = gq[i].cocg_it]]
  /\ unnotified' = FALSE
  /\ last_op' = "cs_gradient_free_quantities"
  /\ cocg_val' = NULL
  /\ UNCHANGED <<systems, n_max_systems, var_name_prev, last_fvm_count, kc, last_call>>
  /\ UNCHANGED <<omp, mesh, pc, p, epoch>>
  /\ UNCHANGED callVars

\* cs_gradient_free_quantities: every array of every entry is freed
cs_gradient_free_quantities ==
  /\ pc = "idle"
  /\ gq' = [i \in 1..Len(gq) |-> gradient_quantities_new]
  /\ unnotified' = FALSE
  /\ last_op' = "cs_gradient_free_quantities"
  /\ cocg_val' = NULL
  /\ UNCHANGED <<systems, n_max_systems, var_name_prev, last_fvm_count, kc, last_call>>
  /\ UNCHANGED <<omp, mesh, pc, p, epoch>>
  /\ UNCHANGED callVars

\* cs_mesh_quantities_compute: the geometry is recomputed, the counter
\* returned by cs_mesh_quantities_compute_count() grows
cs_mesh_quantities_compute ==
  /\ pc = "idle"
  /\ epoch < MaxEpoch
  /\ epoch' = epoch + 1
  /\ unnotified' = TRUE
  /\ last_op' = "cs_mesh_quantities_compute"
  /\ UNCHANGED kvars
  /\ UNCHANGED <<omp, mesh, pc, p, gq>>
  /\ UNCHANGED callVars

(***************************************************************************)
(* Specifications.                                                         *)
(***************************************************************************)
GradientCall ==
  /\ pc = "idle"
  /\ \E prm \in IterParams(mesh) \cup LsqParams(mesh) : cs_gradient_call(prm)

Next ==
  \/ GradientCall
  \/ initialize_gradient
  \/ iterative_gradient_begin
  \/ iterative_gradient_sweep
  \/ iterative_gradient_end
  \/ lsq_gradient
  \/ gradient_clipping
  \/ reconstruct_gradient
  \/ gradient_return
  \/ caller_done
  \/ cs_gradient_free_quantities

Spec == Init /\ [][Next]_vars

\* the cache over a run of calls, notifications and recomputations of the
\* geometry, on the one-cell mesh
InitCache == InitWith({single})

CacheCall ==
  /\ pc = "idle"
  /\ \E prm \in CacheParams(mesh) : cs_gradient_call(prm)

NextCache ==
  \/ CacheCall
  \/ initialize_gradient
  \/ iterative_gradient_begin
  \/ iterative_gradient_sweep
  \/ iterative_gradient_end
  \/ lsq_gradient
  \/ gradient_clipping
  \/ reconstruct_gradient
  \/ gradient_return
  \/ caller_done
  \/ cs_gradient_free_quantities
  \/ cs_mesh_quantities_compute

SpecCache == InitCache /\ [][NextCache]_vars

\* least-squares calls one after the other on the three-cell mesh, with
\* notifications and recomputations of the geometry in between
InitLsq == InitWith({line})

RampVar(m) == [c \in Owned(m) |-> Cen(m, c)]

ScalarLsqArgs(m) ==
  [fn : ScalarEntries, var_name : {"k", "p"}, gradient_type : {CS_GRADIENT_LSQ},
   inc : {0, 1}, w_stride : {1}, c_weight : {NULL}, hyd_p_flag : {0},
   clip_mode : {CS_GRADIENT_LIMIT_NONE},
   bc_coeff_a : {NULL}, bc_coeff_b : {NULL, <<<<0, 1>>, <<0, 1>>>>},
   var : {RampVar(m)}]

VectorLsqArgs(m) ==
  [fn : {"cs_gradient_vector"}, var_name : {"u"}, gradient_type : {CS_GRADIENT_LSQ},
   inc : {1}, w_stride : {1}, c_weight : {NULL}, hyd_p_flag : {0},
   clip_mode : {CS_GRADIENT_LIMIT_NONE},
   bc_coeff_a : {NULL}, bc_coeff_b : {NULL}, var : {RampVar(m)}]

TensorLsqArgs(m) ==
  [fn : {"cs_gradient_tensor"}, var_name : {"r"}, gradient_type : {CS_GRADIENT_LSQ},
   inc : {1}, w_stride : {1}, c_weight : {NULL}, hyd_p_flag : {0},
   clip_mode : {CS_GRADIENT_LIMIT_NONE},
   bc_coeff_a : {NULL}, bc_coeff_b : {NULL}, var : {RampVar(m)}]

LsqCall ==
  /\ pc = "idle"
  /\ \E a \in ScalarLsqArgs(mesh) \cup VectorLsqArgs(mesh) \cup TensorLsqArgs(mesh) :
       cs_gradient_entry(a)

NextLsq ==
  \/ LsqCall
  \/ cs_gradient_lsq_get_cocg
  \/ cs_gradient_lsq_boundary
  \/ cs_gradient_lsq_solve
  \/ cs_gradient_exit
  \/ caller_done
  \/ cs_gradient_free_quantities
  \/ cs_mesh_quantities_compute

SpecLsq == InitLsq /\ [][NextLsq]_vars

\* calls of the six public functions with every scheme, and with weights and
\* clip modes the scheme asked for has no code for
AllEntries == ScalarEntries \cup VectorEntries \cup TensorEntries

\* a weight array of w_stride reals per cell
WeightArray(m, w_stride) == [i \in 0..(m.n_cells_with_ghosts * w_stride - 1) |-> 1]

PlainArgs(m) ==
  [fn : AllEntries, var_name : {"k", "p"},
   gradient_type : {CS_GRADIENT_GREEN_ITER, CS_GRADIENT_LSQ, CS_GRADIENT_GREEN_LSQ},
   inc : {1}, n_r_sweeps : {2}, w_stride : {1}, c_weight : {NULL}, hyd_p_flag : {0},
   clip_mode : {CS_GRADIENT_LIMIT_NONE},
   bc_coeff_a : {NULL}, bc_coeff_b : {NULL}, var : {RampVar(m)}]

WeightedArgs(m) ==
  UNION {[fn : {"cs_gradient_scalar"}, var_name : {"k"},
          gradient_type : {CS_GRADIENT_GREEN_ITER, CS_GRADIENT_LSQ},
          inc : {1}, n_r_sweeps : {2}, w_stride : {w},
          c_weight : {WeightArray(m, w)}, hyd_p_flag : {0},
          clip_mode : {CS_GRADIENT_LIMIT_NONE},
          bc_coeff_a : {NULL}, bc_coeff_b : {NULL}, var : {RampVar(m)}]
         : w \in {1, 3, 6}}

ClipArgs(m) ==
  [fn : {"cs_gradient_tensor"}, var_name : {"r"},
   gradient_type : {CS_GRADIENT_LSQ},
   inc : {1}, n_r_sweeps : {1}, w_stride : {1}, c_weight : {NULL}, hyd_p_flag : {0},
   clip_mode : {CS_GRADIENT_LIMIT_CELL, 2},
   bc_coeff_a : {NULL}, bc_coeff_b : {NULL}, var : {RampVar(m)}]

EntryCall ==
  /\ pc = "idle"
  /\ \E a \in PlainArgs(mesh) \cup WeightedArgs(mesh) \cup ClipArgs(mesh) :
       cs_gradient_entry(a)

NextEntry ==
  \/ EntryCall
  \/ cs_gradient_green_iter
  \/ cs_gradient_lsq_ani
  \/ cs_gradient_lsq_get_cocg
  \/ cs_gradient_lsq_boundary
  \/ cs_gradient_lsq_solve
  \/ cs_gradient_exit
  \/ caller_done

SpecEntry == InitLsq /\ [][NextEntry]_vars

\* calls with boundary coefficient arrays given or left out: the single-cell
\* function, and cs_gradient_scalar on the whole mesh
BcArrays(m, vals) == {NULL} \cup [1..Len(m.b_face_cells) -> vals]

Fields(m) == [Owned(m) -> 0..MaxVar]

BcCall ==
  /\ pc = "idle"
  /\ \/ \E a \in
        [fn : {"cs_gradient_scalar_cell"}, c_id : Owned(mesh),
         bc_coeff_a : BcArrays(mesh, {<<0, 1>>, <<1, 1>>}),
         bc_coeff_b : BcArrays(mesh, {<<0, 1>>, <<1, 1>>}),
         var : Fields(mesh), c_weight : {NULL, WeightArray(mesh, 1)}] :
         cs_gradient_scalar_cell_call(a)
     \/ \E a \in
        [fn : {"cs_gradient_scalar"}, var_name : {"k"}, gradient_type : {CS_GRADIENT_LSQ},
         inc : {1}, n_r_sweeps : {1}, w_stride : {1}, c_weight : {NULL}, hyd_p_flag : {0},
         clip_mode : {CS_GRADIENT_LIMIT_NONE},
         bc_coeff_a : BcArrays(mesh, {<<1, 1>>}),
         bc_coeff_b : BcArrays(mesh, {<<0, 1>>, <<1, 2>>}),
         var : Fields(mesh)] :
         cs_gradient_entry(a)

NextBc ==
  \/ BcCall
  \/ cs_gradient_lsq_get_cocg
  \/ cs_gradient_lsq_boundary
  \/ cs_gradient_lsq_solve
  \/ cs_gradient_exit
  \/ caller_done

SpecBc == InitLsq /\ [][NextBc]_vars

\* scalar calls of the three schemes on the zero field and on a ramp
ZeroCall ==
  /\ pc = "idle"
  /\ \E a \in
        [fn : {"cs_gradient_scalar"}, var_name : {"k"},
         gradient_type : {CS_GRADIENT_GREEN_ITER, CS_GRADIENT_LSQ, CS_GRADIENT_GREEN_LSQ},
         inc : {0, 1}, n_r_sweeps : {1, MaxSweepCap},
         w_stride : {1}, c_weight : {NULL}, hyd_p_flag : {0},
         clip_mode : ClipModes, clip_coeff : {1},
         bc_coeff_a : BcArrays(mesh, {<<1, 1>>}),
         bc_coeff_b : BcArrays(mesh, {<<1, 2>>}),
         var : {ZeroVar(mesh), RampVar(mesh)}] :
         cs_gradient_entry(a)

NextZero ==
  \/ ZeroCall
  \/ cs_gradient_green_iter
  \/ cs_gradient_lsq_get_cocg
  \/ cs_gradient_lsq_boundary
  \/ cs_gradient_lsq_solve
  \/ cs_gradient_exit
  \/ caller_done

SpecZero == InitLsq /\ [][NextZero]_vars

\* least-squares scalar calls with hydrostatic pressure, under each value
\* of cs_glob_e2n_sum_type (e2n_sum_type), with and without porosity fields
\* and cell weights
HydCall ==
  /\ pc = "idle"
  /\ \E a \in
        [fn : {"cs_gradient_scalar"}, var_name : {"p"},
         gradient_type : {CS_GRADIENT_LSQ},
         inc : {1}, n_r_sweeps : {1}, w_stride : {1},
         c_weight : {NULL, [c \in Cells(mesh) |-> c + 1]},
         hyd_p_flag : {1},
         e2n_sum_type : {"CS_E2N_SUM_SCATTER", "CS_E2N_SUM_SCATTER_ATOMIC",
                         "CS_E2N_SUM_GATHER", "CS_E2N_SUM_STORE_THEN_GATHER"},
         f_ext : [Cells(mesh) -> 0..MaxVar],
         poro : {NULL} \cup [i0 : {<<0, 1>>}, i1 : {<<0, 0>>, <<1, 0>>},
                             b : {<<1, 0>>}],
         clip_mode : {CS_GRADIENT_LIMIT_NONE},
         bc_coeff_a : {NULL}, bc_coeff_b : BcArrays(mesh, {<<1, 2>>}),
         var : {ZeroVar(mesh), RampVar(mesh)}] :
       cs_gradient_entry(a)

NextHyd ==
  \/ HydCall
  \/ cs_gradient_lsq_get_cocg
  \/ cs_gradient_lsq_boundary
  \/ cs_gradient_lsq_solve
  \/ cs_gradient_exit
  \/ caller_done

SpecHyd == InitLsq /\ [][NextHyd]_vars

\* loops on the interior faces of the ring mesh under every numbering
InitFaces == InitWith({ring})

NextFaces ==
  \/ i_faces_loop_begin
  \/ omp_thread_load
  \/ omp_thread_store
  \/ omp_next_group
  \/ i_faces_loop_end
  \/ omp_return

SpecFaces == InitFaces /\ [][NextFaces]_vars

\* calls of cs_gradient_porosity_balance on the three-cell mesh under every
\* numbering of its faces
NextPoro ==
  \/ porosity_balance_begin
  \/ omp_thread_load
  \/ omp_thread_store
  \/ omp_next_group
  \/ porosity_balance_boundary
  \/ porosity_balance_end
  \/ omp_return

SpecPoro == InitLsq /\ [][NextPoro]_vars

\* least-squares calls with face-based clipping on the four-cell mesh, with
\* the standard and with the extended neighbourhood
InitClip == InitWith({chain})

ClipCall ==
  /\ pc = "idle"
  /\ \E prm \in
        [dim : Dims, gradient_type : {CS_GRADIENT_LSQ},
         halo_type : {"STANDARD", "EXTENDED"}, n_r_sweeps : {1},
         verbosity : {0}, epsilon : {<<1, 2>>},
         clip_mode : {CS_GRADIENT_LIMIT_FACE}, clip_coeff : {1},
         var : [Owned(mesh) -> 0..MaxVar], cpl : {NULL}] :
       cs_gradient_call(prm)

NextClip ==
  \/ ClipCall
  \/ lsq_gradient
  \/ gradient_clipping
  \/ gradient_return
  \/ caller_done

SpecClip == InitClip /\ [][NextClip]_vars

\* least-squares calls with either clipping algorithm on the two-cell mesh,
\* the last parallel region of the clipping run thread by thread; the field
\* varies by 0 or 99 between the cells where a unit gradient predicts 100
InitStat == InitWith({pair})

StatCall ==
  /\ pc = "idle"
  /\ omp = NULL
  /\ \E prm \in
        [dim : Dims, gradient_type : {CS_GRADIENT_LSQ},
         halo_type : {"STANDARD"}, n_r_sweeps : {1},
         verbosity : {0}, epsilon : {<<1, 2>>},
         clip_mode : {CS_GRADIENT_LIMIT_CELL, CS_GRADIENT_LIMIT_FACE},
         clip_coeff : {1},
         var : [Owned(mesh) -> {0, 99}], cpl : {NULL}] :
       cs_gradient_call(prm)

NextStat ==
  \/ StatCall
  \/ lsq_gradient
  \/ clipping_begin
  \/ clip_thread_loop
  \/ clip_thread_enter
  \/ clip_thread_leave
  \/ clipping_end
  \/ omp_return
  \/ gradient_return
  \/ caller_done

SpecStat == InitStat /\ [][NextStat]_vars

\* least-squares calls with the standard and with the extended halo on the
\* mesh without extended connectivity
InitExt == InitWith({bare})

ExtCall ==
  /\ pc = "idle"
  /\ \E prm \in
        [dim : Dims, gradient_type : {CS_GRADIENT_LSQ},
         halo_type : {"STANDARD", "EXTENDED"}, n_r_sweeps : {1},
         verbosity : {0}, epsilon : {<<1, 2>>},
         clip_mode : {CS_GRADIENT_LIMIT_NONE}, clip_coeff : {1},
         var : [Owned(mesh) -> 0..MaxVar], cpl : {NULL}] :
       cs_gradient_call(prm)

NextExt ==
  \/ ExtCall
  \/ lsq_gradient
  \/ gradient_clipping
  \/ gradient_return
  \/ caller_done

SpecExt == InitExt /\ [][NextExt]_vars

\* sequences of calls of _find_or_add_system over twelve keys
NextReg == find_or_add_system_call

SpecReg == InitLsq /\ [][NextReg]_vars

\* sequences of scalar and vector calls of one field, with and without
\* reconstruction sweeps, under the iterative and the least-squares scheme
DiagCall ==
  /\ pc = "idle"
  /\ \E a \in
        [fn : {"cs_gradient_scalar", "cs_gradient_vector"}, var_name : {"k"},
         gradient_type : {CS_GRADIENT_GREEN_ITER, CS_GRADIENT_LSQ},
         inc : {1}, n_r_sweeps : 1..MaxSweepCap, w_stride : {1}, c_weight : {NULL},
         hyd_p_flag : {0}, clip_mode : {CS_GRADIENT_LIMIT_NONE},
         bc_coeff_a : {NULL}, bc_coeff_b : {NULL}, var : {[c \in Owned(mesh) |-> Cen(mesh, c)]}] :
       cs_gradient_entry(a)

NextDiag ==
  \/ DiagCall
  \/ cs_gradient_green_iter
  \/ cs_gradient_lsq_get_cocg
  \/ cs_gradient_lsq_boundary
  \/ cs_gradient_lsq_solve
  \/ cs_gradient_exit
  \/ caller_done

SpecDiag == InitLsq /\ [][NextDiag]_vars

(***************************************************************************)
(* Properties.                                                             *)
(***************************************************************************)
IterCall == pc # "idle" /\ p.gradient_type = CS_GRADIENT_GREEN_ITER
Ended == pc \in {"switch_done", "returned"}
LoopReached == n_sweeps >= 1
ToleranceMet == residual_below(residual_sq, p.epsilon, rnorm_sq)
CappedUnmet ==
  /\ Ended /\ IterCall /\ LoopReached
  /\ sweeps_run = p.n_r_sweeps - 1
  /\ ~ToleranceMet
OwnedRows == 0..(mesh.n_cells * p.dim - 1)

\* C1: when a gradient call has returned, every owned cell of the output
\* array has been written and every ghost entry holds the value of its
\* source cell (nothing changed an owned cell after the last halo sync).
C1_OutputWrittenAndSynced ==
  pc = "returned" =>
    /\ OwnedWritten(mesh, p.dim, grad)
    /\ GhostsSynced(mesh, p.dim, grad)

\* C2: once the loop of the iterative driver has been reached, the driver
\* ends either converged (the residual below tolerance times the initial
\* norm) or with the sweep count exhausted, and for a cap of n it
\* never runs more than n-1 sweeps; scalar, vector and tensor alike.
C2_ConvergedOrCapped ==
  (Ended /\ IterCall /\ LoopReached) =>
    /\ sweeps_run <= p.n_r_sweeps - 1
    /\ (ToleranceMet \/ sweeps_run = p.n_r_sweeps - 1)

DriverReachedNorm ==
  IterCall /\ pc \in {"sweep_loop", "switch_done", "returned"}
  /\ (p.dim = 1 \/ p.n_r_sweeps > 1) /\ p.n_r_sweeps >= 1
C4_ZeroNormExitsAfterInit ==
  (DriverReachedNorm /\ rnorm_sq = <<0, 1>>) =>
    /\ pc # "sweep_loop"
    /\ sweeps_run = 0 /\ n_sweeps = 0
    /\ warning = NULL
    /\ \A k \in OwnedRows : grad[k] = <<0, 1>>
    /\ log = <<Event("init", "grad")>> \o SyncEvent(mesh, "grad")

C4_Witness ==
  /\ pc = "returned" /\ DriverReachedNorm /\ rnorm_sq = <<0, 1>>
  /\ p.n_r_sweeps = MaxSweepCap /\ p.dim = 6 /\ mesh = ring

\* C5: in every scheme that clips, the clipping comes after a solve, no
\* sweep or solve comes after it, and when the call ends a halo sync of the
\* returned gradient has come after it.
C5_ClipAfterSolveBeforeSync ==
  \A i \in DOMAIN log :
    log[i][1] = "clip" =>
      /\ \E j \in 1..(i - 1) : log[j][1] \in {"sweep", "solve"}
      /\ \A j \in (i + 1)..Len(log) : log[j][1] \notin {"sweep", "solve"}
      /\ (Ended /\ mesh.halo # NULL) =>
            \E j \in (i + 1)..Len(log) : log[j] = Event("sync", "grad")

C5_Witness ==
  /\ pc = "returned" /\ mesh = ring
  /\ p.gradient_type = CS_GRADIENT_LSQ
  /\ \E i \in DOMAIN log : log[i] = Event("clip", "grad")

\* C6: in every clip mode the factor applied to an owned cell lies in
\* (0, 1] and the clipped entries are no larger in magnitude than before.
C6_FactorInUnitInterval ==
  clip # NULL =>
    /\ \A c \in Owned(mesh) :
         RLt(<<0, 1>>, clip.factor[c]) /\ RLe(clip.factor[c], <<1, 1>>)
    /\ \A k \in OwnedRows : RLe(RAbs(clip.after[k]), RAbs(clip.before[k]))

\* C7 as stated: with a non-positive clip mode the clipping changes nothing.
C7_NonPositiveModeNoOp ==
  [][(pc = "solved" /\ p.clip_mode <= 0)
       => (grad' = grad /\ r_grad' = r_grad)]_vars

\* C7 amended: with a negative clip mode the clipping changes nothing, for
\* scalar, vector and tensor fields.
C7_NegativeModeNoOp ==
  [][(pc = "solved" /\ p.clip_mode < 0)
       => (grad' = grad /\ r_grad' = r_grad /\ log' = log /\ clip' = NULL)]_vars

C7_Witness ==
  /\ pc = "switch_done" /\ p.gradient_type = CS_GRADIENT_LSQ
  /\ p.clip_mode < 0 /\ p.dim = 6 /\ mesh = ring
  /\ \E k \in OwnedRows : grad[k] # <<0, 1>>

\* C8: the clipping reads a gradient whose ghost entries hold the values of
\* their source cells, and the face-based factors read denominators whose
\* ghost entries have been exchanged.
C8_ClipReadsSyncedData ==
  clip # NULL => clip.in_synced /\ clip.den_synced

C8_Witness ==
  /\ clip # NULL /\ mesh = ring /\ p.clip_mode = CS_GRADIENT_LIMIT_FACE
  /\ p.dim = 3
  /\ \E c \in Owned(mesh) : RLt(clip.factor[c], <<1, 1>>)

CacheArrays ==
  {"cocg_it", "cocgb_s_lsq", "cocg_lsq", "cocgb_s_lsq_ext", "cocg_lsq_ext"}
AllFreed(q) == \A i \in 1..Len(q) : \A f \in CacheArrays : q[i][f] = NULL
SomeDiscarded(q, q2) ==
  \E i \in 1..Len(q) : \E f \in CacheArrays :
     q[i][f] # NULL /\ (i > Len(q2) \/ q2[i][f] = NULL)

\* C9: a cached matrix is discarded only by the mesh-changed notification
\* (cs_gradient_free_quantities), which leaves no array of any entry
\* allocated: iterative and least-squares, standard and extended, every
\* coupling id; no step of a gradient call discards one; and a matrix a call
\* reads has been built (after a notification: rebuilt) before the read.
C9_DiscardOnlyOnNotification ==
  /\ [][SomeDiscarded(gq, gq')
          => (last_op' = "cs_gradient_free_quantities" /\ AllFreed(gq'))]_vars
  /\ [][last_op' = "cs_gradient_free_quantities" => AllFreed(gq')]_vars
  /\ [](cocg_read # NULL => cocg_read[3] # NULL)

C9_Witness ==
  /\ pc = "returned" /\ Len(gq) = 2 /\ ~unnotified /\ epoch >= 1
  /\ cocg_read = <<1, "cocg_lsq_ext", <<epoch>>>>

\* C10 as stated: a matrix read by a call was built from the geometry of
\* the current epoch.
C10_NoMatrixOfEarlierEpochRead ==
  cocg_read # NULL => cocg_read[3] = <<epoch>>

\* C10 amended: when the mesh-changed notification has been issued since the
\* last recomputation of the geometry, a matrix read by a call was built
\* from the geometry of the current epoch.
C10_NoStaleReadOnceNotified ==
  (cocg_read # NULL /\ ~unnotified) => cocg_read[3] = <<epoch>>

C10_Witness ==
  /\ pc = "returned" /\ ~unnotified /\ epoch = MaxEpoch
  /\ cocg_read = <<0, "cocg_it", <<epoch>>>>
  /\ sweeps_run >= 1

SweepEvents == {i \in DOMAIN log : log[i][1] = "sweep"}

\* C17: within one call of the iterative scheme the initialisation comes
\* first and once; a sweep starts only when the initialisation and every
\* earlier sweep are complete, halo sync included: at the start of a sweep
\* every owned cell of the gradient is written, every ghost entry holds the
\* value of its source cell, and on a mesh with a halo the last stage logged
\* is the sync of the previous stage; sweeps are logged one after the other.
C17_InitThenSweepsInOrder ==
  /\ [][last_op' = "iterative_gradient_sweep" =>
          /\ log # <<>> /\ Head(log) = Event("init", "grad")
          /\ Cardinality(SweepEvents) = sweeps_run
          /\ OwnedWritten(mesh, p.dim, grad)
          /\ GhostsSynced(mesh, p.dim, grad)
          /\ mesh.halo # NULL => log[Len(log)] = Event("sync", "grad")
          /\ log' = log \o <<Event("sweep", "grad")>> \o SyncEvent(mesh, "grad")
          /\ sweeps_run' = sweeps_run + 1]_vars
  /\ [](IterCall =>
          \A i \in DOMAIN log :
             /\ log[i][1] = "init" => i = 1
             /\ log[i][1] = "sweep" => i > 1)

C17_Witness ==
  /\ IterCall /\ mesh = ring /\ sweeps_run = 2 /\ p.dim = 1
  /\ log = <<Event("init", "grad"), Event("sync", "grad"),
             Event("sweep", "grad"), Event("sync", "grad"),
             Event("sweep", "grad"), Event("sync", "grad")>>

\* the boundary coefficient arrays b of the calls of the model
CoefbGiven(m) == {NULL, [f \in 1..Len(m.b_face_cells) |-> <<0, 1>>]}

\* the inverses of the complete covariance of cell c: interior faces plus
\* boundary faces, the latter under the symmetry assumption of the build or
\* with the coefficients of a scalar call
CompleteInverses(m, c) ==
  LET built == compute_cell_cocg_lsq_val(m)
  IN  {built.cocg[c]} \cup
      {recompute_lsq_scalar_cocg(m, bc_coeff_b_used(m, b), built.cocgb,
                                 built.cocg)[c] : b \in CoefbGiven(m)}

\* C19: whenever a least-squares solve takes the cached matrix of an owned
\* cell as the inverse it multiplies the right-hand side by, that matrix is
\* the inverse of the complete covariance of the cell, interior and boundary
\* faces, whatever scalar, vector and tensor calls came before.
C19_SolveReadsCompleteInverse ==
  (kc # NULL /\ pc \in {"k_done", "returned"}) =>
     \A c \in kc.as_inverse : kc.read[c] \in CompleteInverses(mesh, c)

\* the steps that rebuild matrices: the build of _get_cell_cocg_lsq when
\* there are none, and the boundary-only recomputation of a scalar call
BuildOnMiss == last_op' = "cs_gradient_lsq_get_cocg" /\ CocgMiss
BoundaryRecompute ==
  last_op' = "cs_gradient_lsq_boundary" /\ kc.dim = 1 /\ kc.recompute_cocg

\* C11: the values of the cached least-squares matrices change only when
\* they are built on a miss, when a scalar call recomputes the boundary
\* cells, or when the mesh-changed notification discards them; and within
\* one call no access that follows the read of the solve is a write.
C11_CacheMutatedOnlyAtRebuild ==
  /\ [][cocg_val' # cocg_val =>
          \/ BuildOnMiss
          \/ BoundaryRecompute
          \/ last_op' = "cs_gradient_free_quantities"]_vars
  /\ [](kc # NULL =>
          \A i \in DOMAIN kc.acc : \A j \in DOMAIN kc.acc :
             (kc.acc[i] = "read" /\ i < j) => kc.acc[j] = "read")

FastPath ==
  /\ kc # NULL /\ pc # "idle"
  /\ kc.dim = 1 /\ LsqScheme(kc) /\ ~kc.recompute_cocg

\* C18 as stated: the boundary cells are reused as the previous call left
\* them only when the previous gradient call was for the same field with the
\* same increment flag and the geometry has not been recomputed since that
\* call.
C18_FastPathOnlyAfterSameCall ==
  FastPath =>
    /\ kc.prev # NULL
    /\ kc.prev.var_name = kc.args.var_name
    /\ kc.prev.inc = kc.args.inc
    /\ kc.prev.epoch = epoch

\* C18 amended: the boundary cells are reused as the previous call left
\* them only when the call comes through cs_gradient_scalar_synced_input,
\* the previous scalar gradient call was for a field of the same name, the
\* call solves on the increment (inc = 0) and the geometry has not been
\* recomputed since the previous gradient call; the first call and a call
\* that follows a recomputation of the geometry recompute them.
C18_FastPathOnlySameNameIncrement ==
  /\ FastPath =>
       /\ check_recompute_cocg(kc.args.fn)
       /\ kc.prev_name = kc.args.var_name
       /\ kc.args.inc = 0
       /\ kc.prev # NULL
       /\ kc.prev.epoch = epoch
  /\ (kc # NULL /\ pc # "idle" /\ kc.dim = 1
        /\ (kc.prev = NULL \/ kc.prev.epoch # epoch)) => kc.recompute_cocg

C18_Witness ==
  /\ FastPath /\ pc = "returned"
  /\ kc.acc = <<"read">>
  /\ kc.prev.var_name = kc.args.var_name /\ kc.prev.inc = 0

\* C20: the boundary-only recomputation of a scalar call leaves the saved
\* interior sums and the matrices of the cells without boundary face as
\* they are, and makes the matrix of each boundary cell the inverse of its
\* saved interior sum plus the contributions of its boundary faces.
C20_RecomputeOnlyBoundaryCells ==
  [][BoundaryRecompute =>
       /\ cocg_val'.cocgb = cocg_val.cocgb
       /\ \A c \in Cells(mesh) \ BCells(mesh) :
            cocg_val'.cocg[c] = cocg_val.cocg[c]
       /\ \A i \in 1..Len(mesh.b_cells) :
            LET c == mesh.b_cells[i]
                b == RSumSet([f \in BFacesOf(mesh, c) |->
                                RMul(recompute_dddij(mesh, kc.coefbp, f),
                                     recompute_dddij(mesh, kc.coefbp, f))],
                             BFacesOf(mesh, c))
            IN  RMul(cocg_val'.cocg[c], RAdd(cocg_val.cocgb[i], b)) = <<1, 1>>]_vars

C20_Witness ==
  /\ last_op = "cs_gradient_lsq_boundary" /\ kc.dim = 1 /\ kc.recompute_cocg
  /\ kc.acc = <<"recompute">>
  /\ cocg_val.cocg[2] = <<1, 5>> /\ cocg_val.cocg[1] = <<1, 2>>
  /\ cocg_val.cocgb = <<<<1, 1>>, <<1, 1>>>>

\* the entries of a registry under a key, and the calls counted under it
EntriesOf(sys, name, type) ==
  {i \in DOMAIN sys : sys[i].name = name /\ sys[i].type = type}

CallsOf(sys, name, type) ==
  IF EntriesOf(sys, name, type) = {} THEN 0
  ELSE sys[CHOOSE i \in EntriesOf(sys, name, type) : TRUE].n_calls

\* the registry after a call counts one call more under (name, type) than
\* before it, under one entry, and as many as before under every other key
CountedUnder(name, type) ==
  /\ Cardinality(EntriesOf(systems, name, type)) = 1
  /\ CallsOf(systems, name, type) = CallsOf(kc.systems_before, name, type) + 1
  /\ \A i \in DOMAIN systems :
       (systems[i].name # name \/ systems[i].type # type) =>
          /\ systems[i].n_calls > 0
          /\ systems[i].n_calls
               = CallsOf(kc.systems_before, systems[i].name, systems[i].type)

\* C12 as stated: when a public function returns, the registry holds one
\* entry under the field name and the scheme of the call, and that entry
\* counts one call more than before the call.
C12_CountedUnderSchemeOfCall ==
  (kc # NULL /\ pc = "returned") =>
     CountedUnder(kc.args.var_name, kc.args.gradient_type)

\* C12 amended: when a public function returns, the registry holds one entry
\* under the field name and the scheme the call has run, which is the
\* iterative scheme when a tensor function is asked for the hybrid one and
\* the scheme asked for otherwise; that entry counts one call more than
\* before the call, and no other entry has changed.
C12_CountedUnderSchemeRun ==
  (kc # NULL /\ pc = "returned") =>
     CountedUnder(kc.args.var_name,
                  IF kc.args.fn \in TensorEntries
                     /\ kc.args.gradient_type = CS_GRADIENT_GREEN_LSQ
                  THEN CS_GRADIENT_GREEN_ITER
                  ELSE kc.args.gradient_type)

\* a second call of a field under a second scheme, counted apart
C12_Witness ==
  /\ kc # NULL /\ pc = "returned"
  /\ kc.args.fn = "cs_gradient_scalar" /\ kc.args.var_name = "k"
  /\ kc.args.gradient_type = CS_GRADIENT_GREEN_LSQ
  /\ [i \in DOMAIN systems |-> <<systems[i].name, systems[i].type, systems[i].n_calls>>]
       = << <<"k", CS_GRADIENT_GREEN_ITER, 1>>, <<"k", CS_GRADIENT_GREEN_LSQ, 2>> >>

\* the configurations the code of the scheme asked for does not provide
\* for: a weight array whose stride is neither 1 nor 6, a tensor call with
\* a clip mode that is none of the three the clipping knows
Inconsistent(a) ==
  \/ a.c_weight # NULL /\ a.w_stride \notin {1, 6}
  \/ a.fn \in TensorEntries /\ a.clip_mode \notin ClipModes

\* C13: a call ends on the fatal path exactly when its configuration is
\* inconsistent, and every other call returns with its output written.
C13_FatalIffInconsistent ==
  (kc # NULL /\ pc = "returned") =>
     /\ kc.fatal <=> Inconsistent(kc.args)
     /\ ~Inconsistent(kc.args) => kc.populated

\* the arrays of the homogeneous Neumann condition
NeumannA(m) == [f \in 1..Len(m.b_face_cells) |-> <<0, 1>>]
NeumannB(m) == [f \in 1..Len(m.b_face_cells) |-> <<1, 1>>]
OrElse(arr, dflt) == IF arr = NULL THEN dflt ELSE arr

CellCallDone ==
  kc # NULL /\ pc = "returned" /\ kc.args.fn = "cs_gradient_scalar_cell"

\* a call on the whole mesh works with the arrays given, a = 0 in place of an
\* array a left out and b = 1 in place of an array b left out, in its
\* matrices and in its right-hand side
MeshCallDefaults ==
  (kc # NULL /\ pc = "k_done" /\ kc.args.fn = "cs_gradient_scalar") =>
     LET a == OrElse(kc.args.bc_coeff_a, NeumannA(mesh))
         b == OrElse(kc.args.bc_coeff_b, NeumannB(mesh))
     IN  kc.grad
           = lsq_scalar_solve(mesh,
               recompute_lsq_scalar_cocg(mesh, b, cocg_val.cocgb, cocg_val.cocg),
               lsq_scalar_rhs(mesh, kc.args.inc, a, b, kc.args.var,
                              kc.args.c_weight))

\* C14 as stated: whichever boundary coefficient array is left out, the
\* call sums the right-hand side it would sum with a = 0 in place of an array
\* a left out and b = 1 in place of an array b left out, on the whole mesh
\* and for one cell.
C14_OmittedArrayIsNeumann ==
  /\ MeshCallDefaults
  /\ CellCallDone =>
       kc.out.rhsv
         = cs_gradient_scalar_cell(mesh, kc.args.c_id,
                                   OrElse(kc.args.bc_coeff_a, NeumannA(mesh)),
                                   OrElse(kc.args.bc_coeff_b, NeumannB(mesh)),
                                   kc.args.var, kc.args.c_weight).rhsv

\* C14 amended: a call on the whole mesh replaces each array left out by
\* its default (a = 0, b = 1); the call for one cell sums the right-hand
\* side of a = 0, b = 1 when the array a is left out, whatever b, and takes
\* the array a as the values at the face centres when only b is left out.
C14_BothOmittedIsNeumann ==
  /\ MeshCallDefaults
  /\ (CellCallDone /\ kc.args.bc_coeff_a = NULL) =>
       kc.out.rhsv
         = cs_gradient_scalar_cell(mesh, kc.args.c_id, NeumannA(mesh),
                                   NeumannB(mesh), kc.args.var,
                                   kc.args.c_weight).rhsv
  /\ (CellCallDone /\ kc.args.bc_coeff_a # NULL /\ kc.args.bc_coeff_b = NULL) =>
       LET c == kc.args.c_id
           dcb(f) == mesh.b_face_cog[f] - Cen(mesh, c)
           interior == cs_gradient_scalar_cell(mesh, c, NULL, NULL, kc.args.var,
                                               kc.args.c_weight).rhsv
       IN  kc.out.rhsv
             = RAdd(interior,
                    RSumSet([f \in BFacesOf(mesh, c) |->
                               RDiv(RAdd(kc.args.bc_coeff_a[f], R(-kc.args.var[c])),
                                    R(dcb(f)))],
                            BFacesOf(mesh, c)))

\* the gradient of an end cell with both arrays left out
C14_Witness ==
  /\ CellCallDone
  /\ kc.args.bc_coeff_a = NULL /\ kc.args.bc_coeff_b = NULL
  /\ kc.args.c_id = 2 /\ kc.args.var[1] = 1 /\ kc.args.var[2] = 0
  /\ kc.args.c_weight = NULL
  /\ kc.out = [cocg |-> <<2, 1>>, rhsv |-> <<-1, 2>>, grad |-> <<-1, 4>>]

\* a scalar call on the zero field has returned
ZeroFieldDone ==
  /\ kc # NULL /\ pc = "returned" /\ kc.dim = 1
  /\ kc.args.var = ZeroVar(mesh)

\* the gradient returned is zero on every owned cell: the least-squares
\* schemes return grad, the iterative scheme returns the gradient of its
\* initialisation when its driver stops on the norm
ZeroGradient ==
  /\ kc.grad = [c \in Owned(mesh) |-> <<0, 1>>]
  /\ kc.gradient_type = CS_GRADIENT_GREEN_ITER => kc.zero_norm_return

\* C15 as stated: a call on the zero field returns the zero gradient,
\* whatever the scheme, the sweep cap and the clip mode.
C15_ZeroFieldZeroGradient == ZeroFieldDone => ZeroGradient

\* C15 amended: a call on the zero field returns the zero gradient,
\* whatever the scheme, the sweep cap and the clip mode, when the boundary
\* condition adds nothing on any face (inc = 0, or a = 0 on every face) and
\* the call has no hydrostatic pressure term.
C15_ZeroFieldNoBoundaryTerm ==
  (/\ ZeroFieldDone
   /\ kc.args.inc = 0 \/ kc.coefap = NeumannA(mesh)
   /\ kc.args.hyd_p_flag = 0)
     => ZeroGradient

\* the hybrid scheme with clipping on the zero field, a given and inc = 0
C15_Witness ==
  /\ ZeroFieldDone /\ ZeroGradient
  /\ kc.gradient_type = CS_GRADIENT_GREEN_LSQ
  /\ kc.args.clip_mode = CS_GRADIENT_LIMIT_FACE
  /\ kc.args.inc = 0 /\ kc.args.bc_coeff_a # NULL /\ kc.args.bc_coeff_b # NULL
  /\ kc.args.n_r_sweeps = MaxSweepCap

\* C16: a least-squares call with hydrostatic pressure returns, under every
\* value of cs_glob_e2n_sum_type, the gradient the scatter summation
\* returns on the same arguments and matrices: each cell receives the same
\* contributions of its faces.
C16_AssemblyStrategiesAgree ==
  (kc # NULL /\ pc = "returned" /\ kc.dim = 1 /\ kc.args.hyd_p_flag # 0) =>
     kc.grad = lsq_scalar_gradient_hyd_p("CS_E2N_SUM_SCATTER", mesh, kc.read,
                 kc.args.inc, kc.args.f_ext, kc.args.poro, kc.coefap,
                 kc.coefbp, kc.args.var, kc.args.c_weight)

\* the coupling entity of the call in progress: cs_gradient_tensor has no
\* coupling argument
OwnCpl == IF p.dim = 6 THEN NULL ELSE p.cpl
OwnLsqArray == IF lsq_extended(mesh, p.halo_type) THEN "cocg_lsq_ext" ELSE "cocg_lsq"

\* C21: the cache of matrices is get-or-build per (coupling id, halo
\* extent): a step of a gradient call leaves every matrix already cached as
\* it is (it builds only where none is cached), and the matrix a call reads
\* is the one of the entry of its own coupling entity and, for the
\* least-squares solve, of its own halo extent.
C21_MatrixOfOwnKey ==
  /\ [][last_op' # "cs_gradient_free_quantities"
         => \A i \in 1..Len(gq) : \A f \in CacheArrays :
               gq[i][f] # NULL => (i <= Len(gq') /\ gq'[i][f] = gq[i][f])]_vars
  /\ [](cocg_read # NULL
          => /\ cocg_read[1] = gq_id(OwnCpl)
             /\ cocg_read[2] \in {"cocg_it", OwnLsqArray})

\* the faces two threads are working on at the same time
ActiveThreads == {t \in DOMAIN omp.th : omp.th[t].todo # <<>>}
CellsInWork(t) ==
  {omp.th[t].todo[i].cell :
     i \in {j \in DOMAIN omp.th[t].todo : omp.th[t].todo[j].tag = Head(omp.th[t].todo).tag}}
AllFacesOf(m, c) ==
  {<<"i", f>> : f \in {h \in DOMAIN m.i_face_cells : c \in i_face_cells_of(m, h)}}

\* C22: with a numbering whose groups give no cell to two threads, a loop
\* on the interior faces is race-free: two threads never work at the same
\* time on faces that share a cell, a thread is in group g+1 only when every
\* thread has stored all its updates of group g, and at the end every cell
\* holds the contribution of each of its faces.
C22_InteriorLoopsRaceFree ==
  (omp # NULL /\ omp.fn = "i_faces_loop") =>
     /\ \A t, u \in ActiveThreads : t # u => CellsInWork(t) \cap CellsInWork(u) = {}
     /\ \A t, u \in DOMAIN omp.th :
           omp.th[t].g > omp.th[u].g => (omp.th[u].todo = <<>> /\ omp.th[u].tmp = NULL)
     /\ omp.phase = "done"
           => \A c \in Cells(mesh) : omp.val[c].ctb = AllFacesOf(mesh, c)

C22_Witness ==
  /\ omp # NULL /\ omp.fn = "i_faces_loop" /\ omp.phase = "done"
  /\ omp.numbering = <<<<1, 0>>, <<1, 1>>, <<2, 1>>>>
  /\ \A c \in Cells(mesh) : omp.val[c].ctb = AllFacesOf(mesh, c)

AllBFacesOf(m, c) == {<<"b", f>> : f \in {h \in DOMAIN m.b_face_cells : m.b_face_cells[h] = c}}

\* C23: when cs_gradient_porosity_balance(1) returns, the term of each owned
\* cell holds the contribution of each of its interior and boundary faces
\* and has been scaled by the inverse volume exactly once, after the last
\* of these contributions.
C23_ScaledOnceAfterAllFaces ==
  (omp # NULL /\ omp.fn = "cs_gradient_porosity_balance" /\ omp.inc = 1
     /\ omp.phase = "done" /\ omp.val # NULL) =>
     \A c \in Owned(mesh) :
        /\ omp.val[c].ctb = AllFacesOf(mesh, c) \cup AllBFacesOf(mesh, c)
        /\ omp.val[c].scaled = 1
        /\ ~omp.val[c].late

\* the factors of the faces and of the extended neighbours of cell c, from
\* the denum and denom the clipping worked with
FactorsAround(c) ==
  {i_face_min_factor(mesh, p.dim, p.clip_coeff, clip.denum, clip.denom, f)
     : f \in FacesOf(mesh, c)} \cup
  {face_factor(p.dim, p.clip_coeff, clip.denum[jj], clip.denom[jj])
     : jj \in ExtSet(mesh, p.halo_type, c)}

\* C24: the face-based clipping multiplies the gradient of each owned cell
\* (every row of it) by the minimum of the factors of the faces of the cell
\* and, with the extended neighbourhood, of its extended neighbours; for
\* scalar, vector and tensor fields.
C24_FaceClipAppliesMinimum ==
  (clip # NULL /\ clip_algorithm(p.dim, p.clip_mode) = "face") =>
     \A c \in Owned(mesh) :
        FactorsAround(c) # {} =>
           /\ clip.factor[c] = MinOf(FactorsAround(c))
           /\ \A i \in 0..(p.dim - 1) :
                 Row(clip.after, p.dim, c, i)
                   = RMul(Row(clip.before, p.dim, c, i), MinOf(FactorsAround(c)))


\* the last parallel region of a clipping call is over and the call's
\* record is still there
StatDone ==
  /\ omp # NULL
  /\ omp.fn = "gradient_clipping"
  /\ omp.phase = "done"
  /\ clip # NULL

\* the owned cells whose gradient was multiplied by a factor other than 1
ScaledCells == {c \in Owned(mesh) : clip.factor[c] # <<1, 1>>}

\* the owned cells the algorithm counts: the scaled ones in the cell-based
\* algorithm, those with a factor below 0.99 in the face-based one
CountedCells ==
  IF clip_algorithm(p.dim, p.clip_mode) = "cell" THEN ScaledCells
  ELSE {c \in Owned(mesh) : RLt(clip.factor[c], <<99, 100>>)}

OtherRank == IF omp.other = NULL THEN clip_stats_zero ELSE omp.other

\* C25 as stated: the reported count is the number of owned cells, over the
\* ranks, whose gradient was scaled
C25_CountIsScaledCells ==
  StatDone => omp.shared.n_clip = Cardinality(ScaledCells) + OtherRank.n_clip

\* C25: whatever the interleaving of the threads, the clipping reports, over
\* the ranks, the number of owned cells the algorithm counts (the scaled
\* cells in the cell-based algorithm, the cells with a factor below 0.99 in
\* the face-based one) and the minimum and maximum of their factors
C25_StatsOfCountedCells ==
  StatDone =>
     /\ omp.shared.n_clip = Cardinality(CountedCells) + OtherRank.n_clip
     /\ omp.shared.min_factor
          = MinOf({<<1, 1>>, OtherRank.min_factor}
                  \cup {clip.factor[c] : c \in CountedCells})
     /\ omp.shared.max_factor
          = MaxOf({<<0, 1>>, OtherRank.max_factor}
                  \cup {clip.factor[c] : c \in CountedCells})

\* two threads each counted a cell and another rank counted some
C25_Witness ==
  /\ StatDone
  /\ DOMAIN omp.th = 1..2
  /\ \A t \in 1..2 : omp.th[t].part.n_clip = 1
  /\ omp.other # NULL
  /\ omp.other.n_clip > 0


\* (name, type) of the entry at i comes before that of the entry at j
KeyBefore(sys, i, j) ==
  \/ strcmp(sys[i].name, sys[j].name) < 0
  \/ sys[i].name = sys[j].name /\ sys[i].type < sys[j].type

HasKey(sys, name, type) ==
  \E i \in DOMAIN sys : sys[i].name = name /\ sys[i].type = type

\* C26: after any sequence of calls of _find_or_add_system the registry is
\* in increasing order of (name, type), so holds no key twice, and is
\* no longer than its allocated capacity; the call returns an entry under
\* the key asked for, and when the key was there before the call the
\* registry is what it was.
C26_RegistrySortedAndBounded ==
  /\ \A i, j \in DOMAIN systems : i < j => KeyBefore(systems, i, j)
  /\ Len(systems) <= n_max_systems
  /\ (kc # NULL /\ last_op = "find_or_add_system") =>
        /\ systems[kc.id + 1].name = kc.name
        /\ systems[kc.id + 1].type = kc.type
        /\ HasKey(kc.systems_before, kc.name, kc.type)
              => systems = kc.systems_before

\* the registry has outgrown its first allocation and a key in its middle
\* has just been looked up again
C26_Witness ==
  /\ last_op = "find_or_add_system"
  /\ Len(systems) = 11
  /\ n_max_systems = 20
  /\ kc.id = 5
  /\ systems = kc.systems_before

RECURSIVE SeqSum(_)
SeqSum(q) == IF q = <<>> THEN 0 ELSE Head(q) + SeqSum(Tail(q))

SeqSet(q) == {q[i] : i \in DOMAIN q}

\* C27: for each entry of the registry with sweep counts recorded, the
\* stored minimum and maximum are the least and the greatest of the counts
\* recorded and the stored total is their sum.
C27_StoredAreMinMaxSum ==
  \A i \in DOMAIN systems :
     systems[i].recorded # <<>> =>
        /\ systems[i].n_iter_min = MinOfInts(SeqSet(systems[i].recorded))
        /\ systems[i].n_iter_max = MaxOfInts(SeqSet(systems[i].recorded))
        /\ systems[i].n_iter_tot = SeqSum(systems[i].recorded)


\* the driver of an iterative call has returned: n_sweeps (isweep) is the
\* count it has handed to _gradient_info_update_iter
DriverReturned ==
  /\ IterCall
  /\ pc = "switch_done"
  /\ driver_called(p.dim, p.n_r_sweeps)

\* C28: the sweep count an iterative driver records for a call is the
\* number of sweeps the call has run, whether the loop ended on the
\* tolerance or on the cap; scalar, vector and tensor alike.
C28_RecordedIsExecuted == DriverReturned => n_sweeps = sweeps_run


\* the stages of one kind a call has logged, the halo syncs apart
StagesOf(op) == {i \in DOMAIN log : log[i][1] = op}

Stages == SelectSeq(log, LAMBDA e : e[1] # "sync")

HybridAsked == pc = "returned" /\ p.gradient_type_asked = CS_GRADIENT_GREEN_LSQ

\* one least-squares solve, its clipping when the clip mode asks for one,
\* then one Green-Gauss pass, and nothing else
HybridStages ==
  /\ Stages \in {<<Event("solve", "r_grad"), Event("clip", "r_grad"),
                   Event("reconstruct", "grad")>>,
                 <<Event("solve", "r_grad"), Event("reconstruct", "grad")>>}
  /\ (Event("clip", "r_grad") \in SeqSet(Stages))
        <=> (clip_algorithm(p.dim, p.clip_mode) # "none")
  /\ sweeps_run = 0

\* C29 as stated: a call that asks for the hybrid scheme runs the
\* least-squares solve and its clipping once, then one Green-Gauss pass
\* and no sweep; scalar, vector and tensor alike.
C29_HybridRunsSolveClipOnePass == HybridAsked => HybridStages

\* C29 amended: a scalar or vector call that asks for the hybrid scheme
\* runs the least-squares solve and its clipping once, then one
\* Green-Gauss pass and no sweep; a tensor call that asks for it runs the
\* iterative scheme: the initialisation, then its sweeps if n_r_sweeps > 1.
C29_HybridOfScalarAndVector ==
  HybridAsked =>
     IF p.dim = 6
     THEN /\ p.gradient_type = CS_GRADIENT_GREEN_ITER
          /\ Cardinality(StagesOf("init")) = 1
          /\ StagesOf("solve") = {} /\ StagesOf("reconstruct") = {}
     ELSE HybridStages

\* a vector call of the hybrid scheme has returned, clipped
C29_Witness ==
  /\ HybridAsked
  /\ p.dim = 3
  /\ clip # NULL
  /\ Len(Stages) = 3


\* a least-squares call with the extended halo is past its solve on a mesh
\* without extended connectivity
ExtendedOnBare ==
  /\ mesh.cell_cells_idx = NULL
  /\ pc \notin {"idle", "switch"}
  /\ p.gradient_type = CS_GRADIENT_LSQ
  /\ p.halo_type = "EXTENDED"

\* C30: a least-squares call with the extended halo on a mesh without
\* extended connectivity reads nothing through the absent cell_cells_idx,
\* is not ended by such a read, and uses the matrices of the standard
\* neighbourhood as a call with the standard halo does; scalar, vector and
\* tensor alike.
C30_AbsentConnectivityNotRead ==
  ExtendedOnBare =>
     /\ pc # "killed"
     /\ Event("null_read", "cell_cells_idx") \notin SeqSet(log)
     /\ cocg_read[2] = "cocg_lsq"

====
